---- MODULE Spec2Model ----
(***************************************************************************)
(* State-machine model of the RTI web simulator's effect runtime           *)
(* (effects/index.ts, controls/index.ts, controls/settings.ts, main.ts)    *)
(* and of its capture / export engine (controls/snapshot.ts,               *)
(* controls/export-frames.ts, controls/animation.ts).                      *)
(*                                                                         *)
(* Numbers are fixed-point integers in thousandths (1.0 is 1000, 135       *)
(* degrees is 135000).  A parameter value is a tagged record so that a     *)
(* JavaScript number and a JavaScript boolean are never confused:          *)
(*   Num(x) is the number x/1000, Bool(b) is the boolean b.                *)
(***************************************************************************)
EXTENDS Integers, Sequences, FiniteSets, TLC

\* ------------------------------------------------------------------------
\* Tagged parameter values
\* ------------------------------------------------------------------------
Num(x) == [t |-> "num", v |-> x]

Bool(b) == [t |-> "bool", v |-> IF b THEN 1 ELSE 0]

\* JavaScript truthiness of a value: `x ? a : b`.
Truthy(val) == val.v # 0

\* `p.k != null` for a parameter record p.
Has(p, k) == k \in DOMAIN p

\* The empty object {}.
EmptyRec == [k \in {} |-> Num(0)]

\* ------------------------------------------------------------------------
\* Trigonometry used by the angle-carrying effects, in thousandths, on the
\* angles the model exercises (degrees in thousandths).
\* ------------------------------------------------------------------------
CosMilli(a) ==
  CASE a = 0 -> 1000
    [] a = 45000 -> 707
    [] a = 90000 -> 0
    [] a = 135000 -> -707
    [] a = 180000 -> -1000
    [] a = 360000 -> 1000
    [] OTHER -> 1000

SinMilli(a) ==
  CASE a = 0 -> 0
    [] a = 45000 -> 707
    [] a = 90000 -> 1000
    [] a = 135000 -> 707
    [] a = 180000 -> 0
    [] a = 360000 -> 0
    [] OTHER -> 0

\* ------------------------------------------------------------------------
\* Effect registry
\* ------------------------------------------------------------------------
EFFECTS ==
  << "Normal Map", "Sobel Edge", "Emboss", "Grayscale",
     "Chromatic Aberration", "Halftone", "Halftone CMYK" >>

EFFECT_NAMES == << "None" >> \o EFFECTS

SeqRange(s) == { s[i] : i \in 1..Len(s) }

\* EFFECT_MAP.has(name)
InRegistry(name) == name \in SeqRange(EFFECTS)

\* EFFECT_NAMES.indexOf(name), 0-based, -1 when absent.
IndexOf(name) ==
  IF name \in SeqRange(EFFECT_NAMES)
    THEN (CHOOSE i \in 1..Len(EFFECT_NAMES) : EFFECT_NAMES[i] = name) - 1
    ELSE -1

\* A name no effect definition carries (a settings file can hold any string).
UnknownName == "Bogus"

\* effect.defaults()
Defaults(name) ==
  CASE name = "Normal Map" -> [strength |-> Num(2000)]
    [] name = "Sobel Edge" -> [threshold |-> Num(100), invert |-> Bool(FALSE)]
    [] name = "Emboss" -> [strength |-> Num(1000), angle |-> Num(135000)]
    [] name = "Grayscale" ->
         [rWeight |-> Num(299), gWeight |-> Num(587), bWeight |-> Num(114)]
    [] name = "Chromatic Aberration" ->
         [intensity |-> Num(10), centerX |-> Num(500), centerY |-> Num(500)]
    [] name = "Halftone" ->
         [dotSize |-> Num(8000), angle |-> Num(45000), colorMode |-> Num(0),
          mode |-> Num(0), ringThickness |-> Num(100)]
    [] name = "Halftone CMYK" ->
         [pixelSize |-> Num(8000), dotSize |-> Num(700),
          cyanStrength |-> Num(1000), magentaStrength |-> Num(1000),
          yellowStrength |-> Num(1000), blackStrength |-> Num(1000)]
    [] OTHER -> EmptyRec

\* The uniforms a fresh instance holds right after createNode.
InitUniforms(name) ==
  CASE name = "Normal Map" -> [strengthU |-> 2000]
    [] name = "Sobel Edge" -> [thresholdU |-> 100, invertU |-> 0]
    [] name = "Emboss" ->
         [strengthU |-> 1000, angleU |-> 135000,
          cosA |-> CosMilli(135000), sinA |-> SinMilli(135000)]
    [] name = "Grayscale" -> [rW |-> 299, gW |-> 587, bW |-> 114]
    [] name = "Chromatic Aberration" ->
         [intensityU |-> 10, centerX |-> 500, centerY |-> 500]
    [] name = "Halftone" ->
         [dotSizeU |-> 8000, angleU |-> 45000, colorModeU |-> 0, modeU |-> 0,
          ringThicknessU |-> 100,
          cosA |-> CosMilli(45000), sinA |-> SinMilli(45000)]
    [] name = "Halftone CMYK" ->
         [pixelSizeU |-> 8000, dotSizeU |-> 700,
          cyanStrengthU |-> 1000, magentaStrengthU |-> 1000,
          yellowStrengthU |-> 1000, blackStrengthU |-> 1000]
    [] OTHER -> [none |-> 0]

\* `if (p.k != null) u.value = p.k as number`
Take(p, k, old) == IF Has(p, k) THEN p[k].v ELSE old

\* `if (p.k != null) u.value = (p.k as boolean) ? 1.0 : 0.0`
TakeFlag(p, k, old) ==
  IF Has(p, k) THEN (IF Truthy(p[k]) THEN 1000 ELSE 0) ELSE old

\* A setParams that stores the angle and leaves the cached pair alone.
SetParamsAngleOnly(name, u, p) ==
  IF name \in {"Emboss", "Halftone"}
    THEN [u EXCEPT !.angleU = Take(p, "angle", u.angleU)]
    ELSE u

\* instance.setParams(p) on the uniforms u of an instance of effect `name`.
SetParams(name, u, p) ==
  CASE name = "Normal Map" ->
         [strengthU |-> Take(p, "strength", u.strengthU)]
    [] name = "Sobel Edge" ->
         [thresholdU |-> Take(p, "threshold", u.thresholdU),
          invertU |-> TakeFlag(p, "invert", u.invertU)]
    [] name = "Emboss" ->
         [strengthU |-> Take(p, "strength", u.strengthU),
          angleU |-> Take(p, "angle", u.angleU),
          cosA |-> IF Has(p, "angle") THEN CosMilli(p.angle.v) ELSE u.cosA,
          sinA |-> IF Has(p, "angle") THEN SinMilli(p.angle.v) ELSE u.sinA]
    [] name = "Grayscale" ->
         [rW |-> Take(p, "rWeight", u.rW),
          gW |-> Take(p, "gWeight", u.gW),
          bW |-> Take(p, "bWeight", u.bW)]
    [] name = "Chromatic Aberration" ->
         [intensityU |-> Take(p, "intensity", u.intensityU),
          centerX |-> Take(p, "centerX", u.centerX),
          centerY |-> Take(p, "centerY", u.centerY)]
    [] name = "Halftone" ->
         [dotSizeU |-> Take(p, "dotSize", u.dotSizeU),
          angleU |-> Take(p, "angle", u.angleU),
          colorModeU |-> TakeFlag(p, "colorMode", u.colorModeU),
          modeU |-> Take(p, "mode", u.modeU),
          ringThicknessU |-> Take(p, "ringThickness", u.ringThicknessU),
          cosA |-> IF Has(p, "angle") THEN CosMilli(p.angle.v) ELSE u.cosA,
          sinA |-> IF Has(p, "angle") THEN SinMilli(p.angle.v) ELSE u.sinA]
    [] name = "Halftone CMYK" ->
         [pixelSizeU |-> Take(p, "pixelSize", u.pixelSizeU),
          dotSizeU |-> Take(p, "dotSize", u.dotSizeU),
          cyanStrengthU |-> Take(p, "cyanStrength", u.cyanStrengthU),
          magentaStrengthU |-> Take(p, "magentaStrength", u.magentaStrengthU),
          yellowStrengthU |-> Take(p, "yellowStrength", u.yellowStrengthU),
          blackStrengthU |-> Take(p, "blackStrength", u.blackStrengthU)]
    [] OTHER -> u

\* instance.getParams() from the uniforms u of an instance of effect `name`.
GetParams(name, u) ==
  CASE name = "Normal Map" -> [strength |-> Num(u.strengthU)]
    [] name = "Sobel Edge" ->
         [threshold |-> Num(u.thresholdU), invert |-> Bool(u.invertU > 500)]
    [] name = "Emboss" ->
         [strength |-> Num(u.strengthU), angle |-> Num(u.angleU)]
    [] name = "Grayscale" ->
         [rWeight |-> Num(u.rW), gWeight |-> Num(u.gW), bWeight |-> Num(u.bW)]
    [] name = "Chromatic Aberration" ->
         [intensity |-> Num(u.intensityU), centerX |-> Num(u.centerX),
          centerY |-> Num(u.centerY)]
    [] name = "Halftone" ->
         [dotSize |-> Num(u.dotSizeU), angle |-> Num(u.angleU),
          colorMode |-> Bool(u.colorModeU > 500), mode |-> Num(u.modeU),
          ringThickness |-> Num(u.ringThicknessU)]
    [] name = "Halftone CMYK" ->
         [pixelSize |-> Num(u.pixelSizeU), dotSize |-> Num(u.dotSizeU),
          cyanStrength |-> Num(u.cyanStrengthU),
          magentaStrength |-> Num(u.magentaStrengthU),
          yellowStrength |-> Num(u.yellowStrengthU),
          blackStrength |-> Num(u.blackStrengthU)]
    [] OTHER -> EmptyRec

\* Values the parameter widgets and the sample settings files use besides
\* the defaults (all inside the ranges buildUI declares).
AltParams(name) ==
  CASE name = "Normal Map" -> [strength |-> Num(5000)]
    [] name = "Sobel Edge" -> [threshold |-> Num(500), invert |-> Bool(TRUE)]
    [] name = "Emboss" -> [strength |-> Num(2000), angle |-> Num(90000)]
    [] name = "Grayscale" ->
         [rWeight |-> Num(1000), gWeight |-> Num(1000), bWeight |-> Num(1000)]
    [] name = "Chromatic Aberration" ->
         [intensity |-> Num(50), centerX |-> Num(250), centerY |-> Num(750)]
    [] name = "Halftone" ->
         [dotSize |-> Num(20000), angle |-> Num(90000),
          colorMode |-> Bool(TRUE), mode |-> Num(1000),
          ringThickness |-> Num(300)]
    [] name = "Halftone CMYK" ->
         [pixelSize |-> Num(16000), dotSize |-> Num(500),
          cyanStrength |-> Num(2000), magentaStrength |-> Num(500),
          yellowStrength |-> Num(1500), blackStrength |-> Num(0)]
    [] OTHER -> EmptyRec

\* ------------------------------------------------------------------------
\* Bounds
\* ------------------------------------------------------------------------
\* Node identities are reused modulo NodeIds (enough to tell an instance
\* from the one it replaced).
NodeIds == 2

\* Widget moves per parameter folder.
MaxEdits == 1

MaxSteps == 2

\* ------------------------------------------------------------------------
\* State
\* ------------------------------------------------------------------------
VARIABLES
  selected,            \* effectState.selected
  instance,            \* effectState.instance: <<>> (null) or <<inst>>
  params,              \* effectState.params
  colorNode,           \* material.colorNode: 0 (null) or a node id
  effectPick,          \* effectPick.selected (the dropdown's bound value)
  folder,              \* effectParamsFolder: <<>> or <<[effect, obj, live]>>
  nodeCtr,             \* identity of the last colour node built
  originalTexture,     \* ControlState.originalTexture
  texLoad,             \* loadDefaultTexture promise: pending / done / failed
  hashPending,         \* settings decoded from the URL hash, not yet applied
  exported,            \* last record produced by gatherSettings
  exportedP,           \* instance.getParams() at the time of that export
  loopOn,              \* renderer animation loop callback registered
  outputRT,            \* renderer output render target ("canvas" = null)
  liveRTs,             \* render targets created and not yet disposed
  dithering,           \* plane.material.dithering
  hiddenCanvas,        \* the video export's hidden canvas is in the document
  azimuth,             \* lightParams.azimuth (thousandths of a degree)
  lightAzimuth,        \* azimuth the point light was last positioned from
  snapshotInProgress,  \* snapshot.ts module flag
  snapPc,              \* position of the saveSnapshot async body
  exporting,           \* the Export Frames handler's in-flight flag
  expRuns,             \* exportAnimationFrames sequences in flight
  vidRun,              \* exportAnimationVideo call in flight: <<>> or <<run>>
  rtName,              \* parameter round trip: effect under test
  rtIn,                \* parameter round trip: record given to setParams
  rtOut,               \* parameter round trip: <<>> or <<getParams()>>
  calcIn,              \* inputs of the pure computation under study
  calcOut,             \* what the code computed from calcIn
  callerSaw,           \* the last handler surfaced a failure to its caller
  last                 \* label of the last handler that ran

esVars == << selected, instance, params, colorNode, effectPick, folder, nodeCtr >>

texVars == << originalTexture, texLoad, hashPending >>

settingsVars == << exported, exportedP >>

renderVars == << loopOn, outputRT, liveRTs, dithering, hiddenCanvas >>

snapVars == << snapshotInProgress, snapPc >>

framesVars == << exporting, expRuns >>

rtVars == << rtName, rtIn, rtOut >>

calcVars == << calcIn, calcOut >>

vars ==
  << esVars, texVars, settingsVars, renderVars, azimuth, lightAzimuth, snapVars,
     framesVars, vidRun, rtVars, calcVars, callerSaw, last >>

Null == << >>

Some(x) == << x >>

NoTex == "none"

Canvas == "canvas"

\* ------------------------------------------------------------------------
\* Settings records (SettingsJSON.effect only; light and material settings
\* do not interact with the effect runtime)
\* ------------------------------------------------------------------------
NoEffectSettings ==
  [hasEffect |-> FALSE, name |-> "None", hasParams |-> FALSE,
   params |-> EmptyRec]

EffectSettings(name, p) ==
  [hasEffect |-> TRUE, name |-> name, hasParams |-> TRUE, params |-> p]

EffectSettingsNoParams(name) ==
  [hasEffect |-> TRUE, name |-> name, hasParams |-> FALSE,
   params |-> EmptyRec]

\* Settings files a user can import besides a record exported earlier.
SettingsSamples ==
  { NoEffectSettings,
    EffectSettings(UnknownName, [strength |-> Num(5000)]),
    EffectSettingsNoParams(UnknownName),
    EffectSettingsNoParams("Sobel Edge") }
  \cup { EffectSettings(n, AltParams(n)) : n \in SeqRange(EFFECTS) }

\* Settings a shared link can carry in the URL hash.
HashSamples ==
  { EffectSettings(UnknownName, [strength |-> Num(5000)]),
    EffectSettings("Sobel Edge", AltParams("Sobel Edge")) }

\* gatherSettings(...).effect
GatherSettings(sel, p) ==
  IF sel # "None" THEN EffectSettings(sel, p) ELSE NoEffectSettings

\* JSON.parse(JSON.stringify(data)): an undefined `effect` is dropped, finite
\* numbers and booleans are written and read back unchanged.
JsonRoundTrip(data) ==
  IF data.hasEffect THEN data ELSE NoEffectSettings

\* ------------------------------------------------------------------------
\* Effect runtime, as functions on the record
\*   es = [selected, instance, params, colorNode, effectPick, folder, nodeCtr]
\* ------------------------------------------------------------------------
CurrentES ==
  [selected |-> selected, instance |-> instance, params |-> params,
   colorNode |-> colorNode, effectPick |-> effectPick, folder |-> folder,
   nodeCtr |-> nodeCtr]

\* The parameter folder keeps the instance it was built for; once the
\* runtime replaces or drops that instance the folder's widgets are bound
\* to an orphan.
Orphan(f) == IF f = Null THEN Null ELSE Some([f[1] EXCEPT !.live = FALSE])

\* applyEffect(state, material, currentTexture, pixelSize)
ApplyEffect(es, tex) ==
  IF es.selected = "None" \/ tex = NoTex
    THEN [es EXCEPT !.colorNode = 0, !.instance = Null,
                    !.folder = Orphan(es.folder)]
    ELSE IF ~InRegistry(es.selected)
      THEN [es EXCEPT !.colorNode = 0, !.instance = Null,
                      !.folder = Orphan(es.folder)]
      ELSE LET id == (es.nodeCtr % NodeIds) + 1
               u0 == InitUniforms(es.selected)
               u1 == IF DOMAIN es.params # {}
                       THEN SetParams(es.selected, u0, es.params)
                       ELSE u0
           IN [es EXCEPT
                 !.instance = Some([effect |-> es.selected, u |-> u1,
                                    node |-> id, tex |-> tex]),
                 !.colorNode = id,
                 !.nodeCtr = id,
                 !.folder = Orphan(es.folder)]

\* effect.buildUI(folder, instance): the widgets edit a copy of getParams().
BuildUI(inst) ==
  Some([effect |-> inst.effect, obj |-> GetParams(inst.effect, inst.u),
        live |-> TRUE, edits |-> 0])

\* rebuildEffectUI()
RebuildEffectUI(es, tex) ==
  LET e1 == [es EXCEPT !.folder = Null, !.selected = es.effectPick]
  IN IF e1.selected = "None"
       THEN ApplyEffect([e1 EXCEPT !.params = EmptyRec], tex)
       ELSE IF ~InRegistry(e1.selected)
         THEN e1
         ELSE LET e2 == ApplyEffect(
                          [e1 EXCEPT !.params = Defaults(e1.selected)], tex)
              IN IF e2.instance # Null
                   THEN [e2 EXCEPT !.folder = BuildUI(e2.instance[1])]
                   ELSE [e2 EXCEPT !.folder = Null]

\* applySettingsData(data, ...), effect part
ApplySettingsData(es, data, tex) ==
  LET name == IF data.hasEffect THEN data.name ELSE "None"
      e1 == [es EXCEPT !.effectPick = name, !.selected = name]
      e2 == IF data.hasEffect /\ data.hasParams
              THEN [e1 EXCEPT !.params = data.params]
              ELSE e1
  IN RebuildEffectUI(e2, tex)

\* Write an effect-state record back to the variables.
SetES(es) ==
  /\ selected' = es.selected
  /\ instance' = es.instance
  /\ params' = es.params
  /\ colorNode' = es.colorNode
  /\ effectPick' = es.effectPick
  /\ folder' = es.folder
  /\ nodeCtr' = es.nodeCtr

captureVars == << renderVars, azimuth, lightAzimuth, snapVars, framesVars, vidRun >>

\* A handler ends: label it and record whether its caller saw a failure.
Done(label, saw) ==
  /\ last' = label
  /\ callerSaw' = saw

\* ------------------------------------------------------------------------
\* Initial state: initControls has run, restoreFromHash has decoded the URL
\* hash (if any) and deferred its application to the next animation frame,
\* loadDefaultTexture is pending and the render loop has not started yet.
\* ------------------------------------------------------------------------
\* DEFAULT_LIGHT_PARAMS.azimuth (45 degrees, in thousandths of a degree).
DEFAULT_AZIMUTH == 45000

InitPage ==
  /\ selected = "None"
  /\ instance = Null
  /\ params = EmptyRec
  /\ colorNode = 0
  /\ effectPick = "None"
  /\ folder = Null
  /\ originalTexture = NoTex
  /\ nodeCtr = 0
  /\ texLoad = "pending"
  /\ exported = Null
  /\ exportedP = Null
  /\ loopOn = FALSE
  /\ outputRT = Canvas
  /\ liveRTs = {}
  /\ dithering = TRUE
  /\ hiddenCanvas = FALSE
  /\ azimuth = DEFAULT_AZIMUTH
  /\ lightAzimuth = DEFAULT_AZIMUTH
  /\ snapshotInProgress = FALSE
  /\ snapPc = "idle"
  /\ exporting = FALSE
  /\ expRuns = << >>
  /\ vidRun = Null
  /\ callerSaw = FALSE
  /\ last = "init"

NoRoundTrip ==
  /\ rtName = "None"
  /\ rtIn = EmptyRec
  /\ rtOut = Null

NoCalc ==
  /\ calcIn = Null
  /\ calcOut = Null

Init ==
  /\ InitPage
  /\ NoRoundTrip
  /\ NoCalc
  /\ hashPending \in {Null} \cup { Some(JsonRoundTrip(d)) : d \in HashSamples }

\* ------------------------------------------------------------------------
\* Effect runtime handlers
\* ------------------------------------------------------------------------
\* The Effect dropdown: Tweakpane writes the picked name into effectPick and
\* fires "change", whose handler is rebuildEffectUI.
DropdownChange(n) ==
  /\ n # effectPick
  /\ SetES(RebuildEffectUI([CurrentES EXCEPT !.effectPick = n],
                           originalTexture))
  /\ Done("dropdown", FALSE)
  /\ UNCHANGED << texVars, settingsVars, captureVars, rtVars, calcVars >>

\* keydown "e": cycle to the next effect name and reapplyEffect().
KeyE ==
  LET curIdx == IndexOf(selected)
      nextIdx == (curIdx + 1) % Len(EFFECT_NAMES)
      nextName == EFFECT_NAMES[nextIdx + 1]
  IN /\ SetES(ApplyEffect([CurrentES EXCEPT !.selected = nextName],
                          originalTexture))
     /\ Done("keyE", FALSE)
     /\ UNCHANGED << texVars, settingsVars, captureVars, rtVars, calcVars >>

\* importSettings: reader.onload parses the file and applies it.
ImportSettings(d) ==
  /\ SetES(ApplySettingsData(CurrentES, JsonRoundTrip(d), originalTexture))
  /\ Done("import", FALSE)
  /\ UNCHANGED << texVars, settingsVars, captureVars, rtVars, calcVars >>

\* restoreFromHash: the requestAnimationFrame callback deferred at start-up.
HashRestore ==
  /\ hashPending # Null
  /\ SetES(ApplySettingsData(CurrentES, hashPending[1], originalTexture))
  /\ hashPending' = Null
  /\ Done("hashRestore", FALSE)
  /\ UNCHANGED << originalTexture, texLoad, settingsVars, captureVars,
                  rtVars, calcVars >>

\* loadDefaultTexture(...).then: record the texture and start the loop.
DefaultTextureLoaded ==
  /\ texLoad = "pending"
  /\ texLoad' = "done"
  /\ originalTexture' = "default"
  /\ loopOn' = TRUE
  /\ Done("textureLoaded", FALSE)
  /\ UNCHANGED << esVars, hashPending, settingsVars, outputRT, liveRTs,
                  dithering, hiddenCanvas, azimuth, lightAzimuth, snapVars, framesVars,
                  vidRun, rtVars, calcVars >>

\* loadDefaultTexture(...).catch: start the loop without a texture.
DefaultTextureFailed ==
  /\ texLoad = "pending"
  /\ texLoad' = "failed"
  /\ loopOn' = TRUE
  /\ Done("textureFailed", FALSE)
  /\ UNCHANGED << esVars, originalTexture, hashPending, settingsVars,
                  outputRT, liveRTs, dithering, hiddenCanvas, azimuth, lightAzimuth,
                  snapVars, framesVars, vidRun, rtVars, calcVars >>

\* initImageUpload's onSwap callback after swapTextureFromFile resolved.
ImageUpload ==
  /\ originalTexture' = "upload"
  /\ IF instance # Null
       THEN /\ instance' = Some([instance[1] EXCEPT !.tex = "upload"])
            /\ UNCHANGED << selected, params, colorNode, effectPick, folder,
                            nodeCtr >>
       ELSE SetES(ApplyEffect(CurrentES, "upload"))
  /\ Done("upload", FALSE)
  /\ UNCHANGED << texLoad, hashPending, settingsVars, captureVars, rtVars, calcVars >>

\* Values a parameter widget can be moved to.
UIValues(name, k) ==
  { GetParams(name, InitUniforms(name))[k], AltParams(name)[k] }

\* A widget of the parameter folder changes key k to val: Tweakpane writes
\* obj[k] and the "change" handler calls instance.setParams(obj) on the
\* instance the folder was built for.
UIParamChange(k, val) ==
  /\ folder # Null
  /\ k \in DOMAIN folder[1].obj
  /\ val \in UIValues(folder[1].effect, k)
  /\ val # folder[1].obj[k]
  /\ folder[1].edits < MaxEdits
  /\ LET obj1 == [folder[1].obj EXCEPT ![k] = val]
     IN /\ folder' = Some([folder[1] EXCEPT !.obj = obj1, !.edits = @ + 1])
        /\ instance' =
             IF folder[1].live /\ instance # Null
               THEN Some([instance[1] EXCEPT
                            !.u = SetParams(instance[1].effect, @, obj1)])
               ELSE instance
  /\ Done("uiParam", FALSE)
  /\ UNCHANGED << selected, params, colorNode, effectPick, nodeCtr, texVars,
                  settingsVars, captureVars, rtVars, calcVars >>

\* exportSettings / copyShareableLink: gatherSettings of the current state.
\* exportedP remembers what the live instance reported at that moment.
ExportSettings ==
  /\ exported' = Some(GatherSettings(selected, params))
  /\ exportedP' = IF instance # Null
                    THEN Some(GetParams(instance[1].effect, instance[1].u))
                    ELSE Null
  /\ Done("export", FALSE)
  /\ UNCHANGED << esVars, texVars, captureVars, rtVars, calcVars >>

\* importSettings of the file written by the last exportSettings.
ImportExported ==
  /\ exported # Null
  /\ SetES(ApplySettingsData(CurrentES, JsonRoundTrip(exported[1]),
                             originalTexture))
  /\ Done("importExported", FALSE)
  /\ UNCHANGED << texVars, settingsVars, captureVars, rtVars, calcVars >>

ParamKeys ==
  UNION { DOMAIN Defaults(n) : n \in SeqRange(EFFECTS) }

ParamValues ==
  UNION { { Defaults(n)[k] : k \in DOMAIN Defaults(n) }
          \cup { AltParams(n)[k] : k \in DOMAIN AltParams(n) }
          \cup { GetParams(n, InitUniforms(n))[k] : k \in DOMAIN Defaults(n) }
          : n \in SeqRange(EFFECTS) }

\* ------------------------------------------------------------------------
\* saveSnapshot(ctx, onAfter) with onAfter = reapplyEffect
\* ------------------------------------------------------------------------
\* Synchronous part up to the awaited readback.  A call made while a
\* snapshot is in progress returns at once.
SnapshotStart ==
  /\ ~snapshotInProgress
  /\ snapshotInProgress' = TRUE
  /\ liveRTs' = liveRTs \cup {"snapRT"}
  /\ loopOn' = FALSE
  /\ outputRT' = "snapRT"
  /\ snapPc' = "readback"
  /\ Done("snapshotStart", FALSE)
  /\ UNCHANGED << esVars, texVars, settingsVars, dithering, hiddenCanvas,
                  azimuth, lightAzimuth, framesVars, vidRun, rtVars,
                  calcVars >>

\* The readback settles (ok or not); the rest of the try block, the catch
\* (which only logs and falls back to the canvas) and the finally block run.
\* saveSnapshot returned void long before: its caller is told nothing.
SnapshotFinish(ok) ==
  /\ snapPc = "readback"
  /\ liveRTs' = liveRTs \ {"snapRT"}
  /\ outputRT' = Canvas
  /\ loopOn' = TRUE
  /\ snapshotInProgress' = FALSE
  /\ snapPc' = "idle"
  /\ SetES(ApplyEffect(CurrentES, originalTexture))
  /\ Done(IF ok THEN "snapshotDone" ELSE "snapshotFailed", FALSE)
  /\ UNCHANGED << texVars, settingsVars, dithering, hiddenCanvas, azimuth, lightAzimuth,
                  framesVars, vidRun, rtVars, calcVars >>

\* ------------------------------------------------------------------------
\* Animation sweep shared by the frame and the video export
\* ------------------------------------------------------------------------
\* animParams.startAzimuth and endAzimuth as built (0 and 360 degrees, in
\* thousandths of a degree) and the lower end of the Steps slider.
START_AZIMUTH == 0

END_AZIMUTH == 360000

MIN_STEPS == 2

Max(a, b) == IF a >= b THEN a ELSE b

\* A sweep whose last step stops one fraction short of the end azimuth.
SweepAzimuthOverN(s, e, i, steps) ==
  s + ((e - s) * i) \div Max(steps, 1)

\* fraction = i / Math.max(steps - 1, 1);
\* lightParams.azimuth = startAzimuth + (endAzimuth - startAzimuth) * fraction
SweepAzimuth(s, e, i, steps) ==
  s + ((e - s) * i) \div Max(steps - 1, 1)

\* lightParams.azimuth of step i out of steps.
StepAzimuth(i, steps) ==
  SweepAzimuth(START_AZIMUTH, END_AZIMUTH, i, steps)

\* The percentage of the steps completed before step i.
ProgressOfIndex(i, steps) == (i * 200 + steps) \div (2 * steps)

\* Math.round(((i + 1) / steps) * 100)
Progress(i, steps) == ((i + 1) * 200 + steps) \div (2 * steps)

StepChoices == MIN_STEPS .. MaxSteps

RemoveAt(s, r) == [ j \in 1 .. (Len(s) - 1) |-> IF j < r THEN s[j] ELSE s[j + 1] ]

\* Names of the archive entries.
RECURSIVE Digits(_)
\* String(n) of a non-negative integer, as its sequence of decimal digits.
Digits(n) ==
  IF n < 10 THEN << n >> ELSE Append(Digits(n \div 10), n % 10)

RECURSIVE padStart(_, _, _)
\* String.prototype.padStart with a one-character fill.
padStart(d, len, fill) ==
  IF Len(d) >= len THEN d ELSE padStart(<< fill >> \o d, len, fill)

\* An entry number written without padding.
FrameNumUnpadded(i, steps) == Digits(i + 1)

\* num of the entry `frame_${num}.png` pushed at step i.
FrameNum(i, steps) == padStart(Digits(i + 1), Len(Digits(steps)), 0)

\* ------------------------------------------------------------------------
\* Export Frames button and exportAnimationFrames
\* ------------------------------------------------------------------------
\* A sequence started without consulting the in-flight flag.
ExportClickNoGuard(steps) ==
  /\ Len(expRuns) < 2
  /\ exporting' = TRUE
  /\ loopOn' = FALSE
  /\ liveRTs' = liveRTs \cup {"framesRT"}
  /\ dithering' = TRUE
  /\ outputRT' = "framesRT"
  /\ azimuth' = StepAzimuth(0, steps)
  /\ lightAzimuth' = StepAzimuth(0, steps)
  /\ expRuns' = Append(expRuns,
                       [pc |-> "readback", i |-> 0, steps |-> steps,
                        savedAzimuth |-> azimuth, prevDither |-> dithering,
                        entries |-> << >>, pct |-> 0])
  /\ Done("exportStart", FALSE)
  /\ UNCHANGED << esVars, texVars, settingsVars, hiddenCanvas, snapVars,
                  vidRun, rtVars, calcVars >>

\* The click handler up to the first await of exportAnimationFrames: the
\* in-flight flag, the saved azimuth, then the synchronous head of the export
\* (pause the loop, create the target, force dithering, redirect the output)
\* and the first iteration up to its readback.
ExportClick(steps) ==
  IF exporting
    THEN /\ Done("exportClickRejected", FALSE)
         /\ UNCHANGED << esVars, texVars, settingsVars, captureVars, rtVars, calcVars >>
    ELSE /\ exporting' = TRUE
         /\ loopOn' = FALSE
         /\ liveRTs' = liveRTs \cup {"framesRT"}
         /\ dithering' = TRUE
         /\ outputRT' = "framesRT"
         /\ azimuth' = StepAzimuth(0, steps)
         /\ lightAzimuth' = StepAzimuth(0, steps)
         /\ expRuns' = Append(expRuns,
                              [pc |-> "readback", i |-> 0, steps |-> steps,
                               savedAzimuth |-> azimuth,
                               prevDither |-> dithering,
                               entries |-> << >>, pct |-> 0])
         /\ Done("exportStart", FALSE)
         /\ UNCHANGED << esVars, texVars, settingsVars, hiddenCanvas,
                         snapVars, vidRun, rtVars, calcVars >>

\* A cleanup that leaves the light where the sweep stopped.
ExportCleanupKeepAzimuth(r) ==
  /\ liveRTs' = liveRTs \ {"framesRT"}
  /\ dithering' = expRuns[r].prevDither
  /\ outputRT' = Canvas
  /\ loopOn' = TRUE
  /\ UNCHANGED << azimuth, lightAzimuth >>
  /\ exporting' = FALSE
  /\ expRuns' = RemoveAt(expRuns, r)

\* The finally block of exportAnimationFrames followed by the finally block
\* of the click handler, for the sequence at position r.
ExportCleanup(r) ==
  /\ liveRTs' = liveRTs \ {"framesRT"}
  /\ dithering' = expRuns[r].prevDither
  /\ outputRT' = Canvas
  /\ loopOn' = TRUE
  /\ azimuth' = expRuns[r].savedAzimuth
  /\ lightAzimuth' = expRuns[r].savedAzimuth
  /\ exporting' = FALSE
  /\ expRuns' = RemoveAt(expRuns, r)

\* The readback of the current frame settles.  A rejection leaves the loop
\* through both finally blocks and rejects the handler's promise.
ExportReadbackDone(r, ok) ==
  /\ r \in 1 .. Len(expRuns)
  /\ expRuns[r].pc = "readback"
  /\ IF ok
       THEN /\ expRuns' = [expRuns EXCEPT ![r].pc = "encode"]
            /\ Done("frameRead", FALSE)
            /\ UNCHANGED << renderVars, azimuth, lightAzimuth, exporting >>
       ELSE /\ ExportCleanup(r)
            /\ Done("framesFailed", TRUE)
            /\ UNCHANGED hiddenCanvas
  /\ UNCHANGED << esVars, texVars, settingsVars, snapVars, vidRun, rtVars, calcVars >>

\* toBlob settles (with a blob or with null): the entry is pushed, progress
\* is reported, and either the next iteration runs up to its readback or the
\* loop ends, the finally blocks run and the archive is downloaded.
ExportEncodeDone(r, hasBlob) ==
  /\ r \in 1 .. Len(expRuns)
  /\ expRuns[r].pc = "encode"
  /\ LET run == expRuns[r]
         entries1 == IF hasBlob THEN Append(run.entries,
                                            FrameNum(run.i, run.steps))
                                ELSE run.entries
     IN IF run.i + 1 < run.steps
          THEN /\ expRuns' = [expRuns EXCEPT
                                ![r].entries = entries1,
                                ![r].pct = Progress(run.i, run.steps),
                                ![r].i = run.i + 1,
                                ![r].pc = "readback"]
               /\ azimuth' = StepAzimuth(run.i + 1, run.steps)
               /\ lightAzimuth' = StepAzimuth(run.i + 1, run.steps)
               /\ Done("frameEncoded", FALSE)
               /\ UNCHANGED << renderVars, exporting >>
          ELSE /\ ExportCleanup(r)
               /\ Done("framesDone", FALSE)
               /\ UNCHANGED hiddenCanvas
  /\ UNCHANGED << esVars, texVars, settingsVars, snapVars, vidRun, rtVars, calcVars >>

\* ------------------------------------------------------------------------
\* exportAnimationVideo
\* ------------------------------------------------------------------------

\* The call up to its first await.  The render target, the hidden canvas and
\* the dithering flag are set up first; the captureStream test and the
\* MediaRecorder construction come after them and throw out of the function
\* before the try block is entered.
VideoStart(cap, steps) ==
  /\ vidRun = Null
  /\ liveRTs' = liveRTs \cup {"vidRT"}
  /\ hiddenCanvas' = TRUE
  /\ dithering' = TRUE
  /\ IF cap # "full"
       THEN /\ Done("videoUnsupported", TRUE)
            /\ UNCHANGED << loopOn, outputRT, azimuth, lightAzimuth, vidRun >>
       ELSE /\ loopOn' = FALSE
            /\ outputRT' = "vidRT"
            /\ azimuth' = StepAzimuth(0, steps)
            /\ lightAzimuth' = StepAzimuth(0, steps)
            /\ vidRun' = Some([pc |-> "readback", i |-> 0, steps |-> steps,
                               prevDither |-> dithering, failed |-> FALSE,
                               pct |-> 0])
            /\ Done("videoStart", FALSE)
  /\ UNCHANGED << esVars, texVars, settingsVars, snapVars, framesVars,
                  rtVars, calcVars >>

\* The readback of the current frame settles.  A rejection enters the finally
\* block, which stops the recorder and waits for its stop event.
VideoReadbackDone(ok) ==
  /\ vidRun # Null
  /\ vidRun[1].pc = "readback"
  /\ vidRun' = IF ok THEN Some([vidRun[1] EXCEPT !.pc = "raf"])
                     ELSE Some([vidRun[1] EXCEPT !.pc = "stopping",
                                                 !.failed = TRUE])
  /\ Done(IF ok THEN "videoFrameRead" ELSE "videoReadFailed", FALSE)
  /\ UNCHANGED << esVars, texVars, settingsVars, renderVars, azimuth, lightAzimuth,
                  snapVars, framesVars, rtVars, calcVars >>

\* The animation frame awaited after drawing on the hidden canvas: progress
\* is reported and the next iteration runs up to its readback, or the loop
\* ends and the finally block stops the recorder.
VideoRafDone ==
  /\ vidRun # Null
  /\ vidRun[1].pc = "raf"
  /\ LET run == vidRun[1]
     IN IF run.i + 1 < run.steps
          THEN /\ vidRun' = Some([run EXCEPT
                                    !.pct = Progress(run.i, run.steps),
                                    !.i = run.i + 1,
                                    !.pc = "readback"])
               /\ azimuth' = StepAzimuth(run.i + 1, run.steps)
               /\ lightAzimuth' = StepAzimuth(run.i + 1, run.steps)
          ELSE /\ vidRun' = Some([run EXCEPT
                                    !.pct = Progress(run.i, run.steps),
                                    !.pc = "stopping"])
               /\ UNCHANGED << azimuth, lightAzimuth >>
  /\ Done("videoFramePresented", FALSE)
  /\ UNCHANGED << esVars, texVars, settingsVars, renderVars, snapVars,
                  framesVars, rtVars, calcVars >>

\* The recorder's stop event: the rest of the finally block, then the
\* function returns or rethrows.
VideoStopped ==
  /\ vidRun # Null
  /\ vidRun[1].pc = "stopping"
  /\ outputRT' = Canvas
  /\ loopOn' = TRUE
  /\ dithering' = vidRun[1].prevDither
  /\ liveRTs' = liveRTs \ {"vidRT"}
  /\ hiddenCanvas' = FALSE
  /\ vidRun' = Null
  /\ Done(IF vidRun[1].failed THEN "videoFailed" ELSE "videoDone",
          vidRun[1].failed)
  /\ UNCHANGED << esVars, texVars, settingsVars, azimuth, lightAzimuth, snapVars,
                  framesVars, rtVars, calcVars >>

\* ------------------------------------------------------------------------
\* Parameter round trip of one effect instance
\* ------------------------------------------------------------------------
\* Records with the keys of a base record, each field taken from a or b.
Mix(a, b) ==
  { [k \in DOMAIN a |-> IF k \in S THEN b[k] ELSE a[k]] : S \in SUBSET DOMAIN a }

\* defaults() and the in-range samples of an effect.
ParamSamples(name) ==
  {Defaults(name)}
    \cup Mix(GetParams(name, InitUniforms(name)), AltParams(name))

\* createNode, setParams(p), getParams().
RoundTrip ==
  /\ rtOut = Null
  /\ rtOut' = Some(GetParams(rtName, SetParams(rtName, InitUniforms(rtName),
                                               rtIn)))
  /\ Done("roundTrip", FALSE)
  /\ UNCHANGED << esVars, texVars, settingsVars, captureVars, rtName, rtIn,
                  calcVars >>

\* Another record is drawn for another instance.
NextSample(name, p) ==
  /\ rtOut # Null
  /\ p \in ParamSamples(name)
  /\ rtName' = name
  /\ rtIn' = p
  /\ rtOut' = Null
  /\ Done("sample", FALSE)
  /\ UNCHANGED << esVars, texVars, settingsVars, captureVars, calcVars >>

\* ------------------------------------------------------------------------
\* Specifications
\* ------------------------------------------------------------------------
\* Effect selection: every path that selects or re-applies an effect.
Next ==
  \/ \E n \in SeqRange(EFFECT_NAMES) : DropdownChange(n)
  \/ KeyE
  \/ \E d \in SettingsSamples : ImportSettings(d)
  \/ HashRestore
  \/ DefaultTextureLoaded
  \/ DefaultTextureFailed
  \/ ImageUpload
  \/ SnapshotStart
  \/ \E ok \in BOOLEAN : SnapshotFinish(ok)

Spec == Init /\ [][Next]_vars

\* Parameter editing and settings export / import, on a page opened without
\* a settings hash.
InitEdit == InitPage /\ NoRoundTrip /\ NoCalc /\ hashPending = Null

NextEdit ==
  \/ \E n \in SeqRange(EFFECT_NAMES) : DropdownChange(n)
  \/ DefaultTextureLoaded
  \/ \E k \in ParamKeys : \E val \in ParamValues : UIParamChange(k, val)
  \/ ExportSettings
  \/ ImportExported
  \/ SnapshotStart
  \/ \E ok \in BOOLEAN : SnapshotFinish(ok)

SpecEdit == InitEdit /\ [][NextEdit]_vars

\* Parameter round trips: one effect and one record per behaviour start.
InitParams ==
  /\ InitPage
  /\ NoCalc
  /\ hashPending = Null
  /\ rtName \in SeqRange(EFFECTS)
  /\ rtIn \in ParamSamples(rtName)
  /\ rtOut = Null

NextParams ==
  \/ RoundTrip
  \/ \E name \in SeqRange(EFFECTS) : \E p \in ParamSamples(name) : NextSample(name, p)

SpecParams == InitParams /\ [][NextParams]_vars

\* Snapshot, frame export and video export on a page opened without a
\* settings hash.
InitCapture == InitPage /\ NoRoundTrip /\ NoCalc /\ hashPending = Null

NextCapture ==
  \/ DefaultTextureLoaded
  \/ DefaultTextureFailed
  \/ SnapshotStart
  \/ \E ok \in BOOLEAN : SnapshotFinish(ok)
  \/ \E steps \in StepChoices : ExportClick(steps)
  \/ \E r \in 1 .. Len(expRuns) : \E ok \in BOOLEAN : ExportReadbackDone(r, ok)
  \/ \E r \in 1 .. Len(expRuns) : \E hasBlob \in BOOLEAN : ExportEncodeDone(r, hasBlob)
  \* What the browser offers: everything, no canvas.captureStream, or no
  \* MediaRecorder constructor.
  \/ \E cap \in {"full", "noCaptureStream", "noMediaRecorder"} : \E steps \in StepChoices : VideoStart(cap, steps)
  \/ \E ok \in BOOLEAN : VideoReadbackDone(ok)
  \/ VideoRafDone
  \/ VideoStopped

SpecCapture == InitCapture /\ [][NextCapture]_vars

\* ------------------------------------------------------------------------
\* Claims about the effect runtime
\* ------------------------------------------------------------------------
\* C1: after any selection path has selected a name that is not in the
\* registry (settings import, URL-hash restore, or applyEffect run directly
\* by the E key or after a snapshot), effectState.instance is null and
\* material.colorNode is null, whatever effect was active before.
C1_UnknownSelectionClears ==
  ( /\ last \in {"import", "hashRestore", "keyE", "snapshotDone",
                 "snapshotFailed"}
    /\ selected # "None"
    /\ ~InRegistry(selected) )
  => (instance = Null /\ colorNode = 0)

\* C2: effectState.instance is null exactly when effectState.selected is
\* "None" or no source texture is present.
C2_InstanceNullIff ==
  (instance = Null) <=> (selected = "None" \/ originalTexture = NoTex)

\* C5: the key set of effectState.params equals the key set of defaults() of
\* the selected effect (empty for "None").
C5_ParamsKeysMatchDefaults ==
  (selected = "None" \/ InRegistry(selected))
  => DOMAIN params = DOMAIN Defaults(selected)

\* C3: importing a record exported while an effect was active with
\* parameter values P (instance.getParams() at export time) yields
\* effectState.selected equal to the exported name and an instance whose
\* getParams() equals P.
C3_SettingsRoundTrip ==
  ( /\ last = "importExported"
    /\ exported # Null
    /\ exportedP # Null
    /\ exported[1].hasEffect )
  => /\ selected = exported[1].name
     /\ instance # Null
     /\ GetParams(instance[1].effect, instance[1].u) = exportedP[1]

\* C4: a parameter changed through the folder of the active instance is
\* written to the cached effectState.params, and a rebuild of the instance
\* (reapplyEffect after a snapshot) yields an instance whose getParams()
\* equals the values in force before the rebuild.
C4_ParamChangeSurvivesRebuild ==
  [][ /\ ( /\ last' = "uiParam"
           /\ folder # Null
           /\ folder[1].live
           /\ instance # Null )
         => \A k \in DOMAIN folder[1].obj :
              folder'[1].obj[k] # folder[1].obj[k]
              => (k \in DOMAIN params' /\ params'[k] = folder'[1].obj[k])
      /\ ( /\ last' \in {"snapshotDone", "snapshotFailed"}
           /\ instance # Null )
         => /\ instance' # Null
            /\ GetParams(instance'[1].effect, instance'[1].u)
                 = GetParams(instance[1].effect, instance[1].u)
    ]_vars


\* C6: for every effect and every record p that is defaults() or an in-range
\* sample, createNode + setParams(p) + getParams() returns a record equal to
\* p, with the same keys and the same value types.
C6_ParamRoundTrip ==
  rtOut # Null => rtOut[1] = rtIn

C8_CleanupOnFailure ==
  LET \* No other capture or export is in flight and the page's render loop has
      \* been started.
      Quiescent ==
        /\ snapPc = "idle"
        /\ expRuns = << >>
        /\ vidRun = Null
        /\ texLoad # "pending"
  IN
    ( /\ last \in {"snapshotFailed", "framesFailed", "videoFailed",
                   "videoUnsupported"}
      /\ Quiescent )
    => /\ liveRTs = {}
       /\ outputRT = Canvas
       /\ dithering
       /\ loopOn

\* C9: when captureStream or MediaRecorder is missing, the video export
\* throws before any mutation: the loop, the output target, the set of live
\* render targets, the hidden canvas and the dithering flag are as before
\* the call.
C9_UnsupportedThrowsFirst ==
  [][ last' = "videoUnsupported"
        => UNCHANGED << loopOn, outputRT, liveRTs, hiddenCanvas, dithering >>
    ]_vars

\* C10: a readback failure inside saveSnapshot or exportAnimationFrames is
\* surfaced to the caller, after the cleanup has run.
C10_FailurePropagated ==
  last \in {"snapshotFailed", "framesFailed"}
    => /\ callerSaw
       /\ outputRT = Canvas
       /\ loopOn


\* ------------------------------------------------------------------------
\* Crop rectangle of the plane and the region read back
\* ------------------------------------------------------------------------
\* Projected screen coordinates are kept in half pixels so that Math.floor
\* and Math.ceil do something; canvas sizes and rectangles are in pixels.
MaxDim == 2

Min(a, b) == IF a <= b THEN a ELSE b

\* Math.floor and Math.ceil of a coordinate given in half pixels.
Floor(x) == x \div 2

Ceil(x) == 0 - ((0 - x) \div 2)

\* Bounds whose far edge is not clamped to the canvas.
computePlaneBoundsUnclamped(e, canvasWidth, canvasHeight) ==
  LET x == Max(0, Floor(e.minX))
      y == Max(0, Floor(e.minY))
      width == Ceil(e.maxX) - x
      height == Ceil(e.maxY) - y
  IN IF width <= 0 \/ height <= 0
       THEN Null
       ELSE Some([x |-> x, y |-> y, width |-> width, height |-> height])

\* snapshot.ts computePlaneBounds, from the extents on.
computePlaneBounds(e, canvasWidth, canvasHeight) ==
  LET x == Max(0, Floor(e.minX))
      y == Max(0, Floor(e.minY))
      width == Min(canvasWidth, Ceil(e.maxX)) - x
      height == Min(canvasHeight, Ceil(e.maxY)) - y
  IN IF width <= 0 \/ height <= 0
       THEN Null
       ELSE Some([x |-> x, y |-> y, width |-> width, height |-> height])

\* export-frames.ts _planeScreenRect, from the extents on.
planeScreenRect(e, w, h) ==
  LET sx == Max(0, Floor(e.minX))
      sy == Max(0, Floor(e.minY))
      sw == Min(w, Ceil(e.maxX)) - sx
      sh == Min(h, Ceil(e.maxY)) - sy
  IN IF sw <= 0 \/ sh <= 0
       THEN Null
       ELSE Some([sx |-> sx, sy |-> sy, sw |-> sw, sh |-> sh])

\* capture-utils.ts computePlaneScreenRect, from the extents on.
computePlaneScreenRect(e, canvasW, canvasH) ==
  LET sx == Max(0, Floor(e.minX))
      sy == Max(0, Floor(e.minY))
      sw == Min(canvasW, Ceil(e.maxX)) - sx
      sh == Min(canvasH, Ceil(e.maxY)) - sy
  IN IF sw <= 0 \/ sh <= 0
       THEN Null
       ELSE Some([sx |-> sx, sy |-> sy, sw |-> sw, sh |-> sh])

\* capture-utils.ts drawImageCrop: the part of the source canvas that is
\* drawn (top-left origin); the whole canvas when there is no rectangle.
CropRegion(rect, w, h) ==
  IF rect = Null
    THEN [rx |-> 0, ry |-> 0, rw |-> w, rh |-> h]
    ELSE [rx |-> rect[1].sx, ry |-> rect[1].sy, rw |-> rect[1].sw,
          rh |-> rect[1].sh]

\* A region read without the whole-frame fallback.
SnapshotRegionNoFallback(bounds, w, h) ==
  IF bounds # Null
    THEN [rx |-> bounds[1].x, ry |-> h - bounds[1].y - bounds[1].height,
          rw |-> bounds[1].width, rh |-> bounds[1].height]
    ELSE [rx |-> 0, ry |-> 0, rw |-> 0, rh |-> 0]

\* saveSnapshot: the region handed to readRenderTargetPixelsAsync.
SnapshotRegion(bounds, w, h) ==
  [rx |-> IF bounds # Null THEN bounds[1].x ELSE 0,
   ry |-> IF bounds # Null THEN h - bounds[1].y - bounds[1].height ELSE 0,
   rw |-> IF bounds # Null THEN bounds[1].width ELSE w,
   rh |-> IF bounds # Null THEN bounds[1].height ELSE h]

\* A region flipped about the rectangle's top edge only.
FrameRegionFlipTop(rect, w, h) ==
  [rx |-> IF rect # Null THEN rect[1].sx ELSE 0,
   ry |-> IF rect # Null THEN h - rect[1].sy ELSE 0,
   rw |-> IF rect # Null THEN rect[1].sw ELSE w,
   rh |-> IF rect # Null THEN rect[1].sh ELSE h]

\* exportAnimationFrames: the region handed to readRenderTargetPixelsAsync.
FrameRegion(rect, w, h) ==
  [rx |-> IF rect # Null THEN rect[1].sx ELSE 0,
   ry |-> IF rect # Null THEN h - rect[1].sy - rect[1].sh ELSE 0,
   rw |-> IF rect # Null THEN rect[1].sw ELSE w,
   rh |-> IF rect # Null THEN rect[1].sh ELSE h]

\* The snapshot's capture of one frame: bounds, region, and the canvas the
\* pixels are put on before encoding.
SnapshotCapture ==
  /\ calcIn # Null
  /\ calcIn[1].kind = "rect"
  /\ calcOut = Null
  /\ LET in == calcIn[1]
         bounds == computePlaneBounds(in.e, in.w, in.h)
         reg == SnapshotRegion(bounds, in.w, in.h)
     IN calcOut' = Some([op |-> "snapshot", hasRect |-> bounds # Null,
                         rect |-> bounds, region |-> reg,
                         imgW |-> reg.rw, imgH |-> reg.rh])
  /\ Done("snapshotCapture", FALSE)
  /\ UNCHANGED << esVars, texVars, settingsVars, captureVars, rtVars, calcIn >>

\* One frame of the frame export: rect, region, and the temporary canvas.
FrameCapture ==
  /\ calcIn # Null
  /\ calcIn[1].kind = "rect"
  /\ calcOut = Null
  /\ LET in == calcIn[1]
         rect == planeScreenRect(in.e, in.w, in.h)
         reg == FrameRegion(rect, in.w, in.h)
     IN calcOut' = Some([op |-> "frame", hasRect |-> rect # Null,
                         rect |-> rect, region |-> reg,
                         imgW |-> reg.rw, imgH |-> reg.rh])
  /\ Done("frameCapture", FALSE)
  /\ UNCHANGED << esVars, texVars, settingsVars, captureVars, rtVars, calcIn >>

\* computePlaneScreenRect followed by drawImageCrop on the canvas.
ScreenRectCrop ==
  /\ calcIn # Null
  /\ calcIn[1].kind = "rect"
  /\ calcOut = Null
  /\ LET in == calcIn[1]
         rect == computePlaneScreenRect(in.e, in.w, in.h)
         reg == CropRegion(rect, in.w, in.h)
     IN calcOut' = Some([op |-> "crop", hasRect |-> rect # Null,
                         rect |-> rect, region |-> reg,
                         imgW |-> reg.rw, imgH |-> reg.rh])
  /\ Done("screenRectCrop", FALSE)
  /\ UNCHANGED << esVars, texVars, settingsVars, captureVars, rtVars, calcIn >>

\* Crop geometry: one canvas size and one projection per behaviour.
InitRect ==
  LET CanvasSizes == [w : 1 .. MaxDim, h : 1 .. MaxDim]
  IN
    LET \* Screen extents of the eight projected corners of the plane's box.
        Extents ==
          { e \in [minX : -3 .. (2 * MaxDim + 3), maxX : -3 .. (2 * MaxDim + 3),
                   minY : {-3, 1, 2, 2 * MaxDim + 1}, maxY : {-1, 2, 2 * MaxDim + 3}] :
              e.minX <= e.maxX /\ e.minY <= e.maxY }
    IN
      /\ InitPage
      /\ NoRoundTrip
      /\ hashPending = Null
      /\ calcIn \in { Some([kind |-> "rect", e |-> e, w |-> c.w, h |-> c.h]) :
                        e \in Extents, c \in CanvasSizes }
      /\ calcOut = Null

NextRect ==
  \/ SnapshotCapture
  \/ FrameCapture
  \/ ScreenRectCrop

SpecRect == InitRect /\ [][NextRect]_vars

\* C11: when the plane projects entirely outside the surface, the snapshot
\* and every exported frame read the region (0, 0, w, h) and encode an image
\* of exactly w x h pixels, never an empty one.
C11_OffscreenFullFrame ==
  LET \* The plane projects entirely outside the w x h surface.
      Offscreen(in) ==
        \/ in.e.maxX < 0
        \/ in.e.minX > 2 * in.w
        \/ in.e.maxY < 0
        \/ in.e.minY > 2 * in.h
  IN
    (calcOut # Null /\ calcIn[1].kind = "rect" /\ Offscreen(calcIn[1]))
    => /\ ~calcOut[1].hasRect
       /\ calcOut[1].region
            = [rx |-> 0, ry |-> 0, rw |-> calcIn[1].w, rh |-> calcIn[1].h]
       /\ calcOut[1].imgW = calcIn[1].w
       /\ calcOut[1].imgH = calcIn[1].h
       /\ calcOut[1].imgW > 0
       /\ calcOut[1].imgH > 0

\* An exported frame was captured with the plane below the surface.
C11_Witness ==
  /\ calcOut # Null
  /\ calcIn[1].kind = "rect"
  /\ calcOut[1].op = "frame"
  /\ calcIn[1].e.minY > 2 * calcIn[1].h
  /\ calcIn[1].e.minX >= 0
  /\ calcIn[1].e.maxX <= 2 * calcIn[1].w


\* ------------------------------------------------------------------------
\* Azimuth sweep of an export
\* ------------------------------------------------------------------------
MaxSweep == 3

DEFAULT_STEPS == 36

\* Start and end azimuths the sliders can be set to (thousandths of a degree).
AzimuthChoices == {0, 45000, 360000}

\* One iteration of the export loop: the azimuth of the step is set and,
\* at the end of the iteration, onProgress is called.
SweepStep ==
  /\ calcIn # Null
  /\ calcIn[1].kind = "sweep"
  /\ Len(calcOut[1].az) < calcIn[1].steps
  /\ LET i == Len(calcOut[1].az)
     IN calcOut' =
          Some([az |-> Append(calcOut[1].az,
                              SweepAzimuth(calcIn[1].s, calcIn[1].e, i,
                                           calcIn[1].steps)),
                pct |-> Append(calcOut[1].pct, Progress(i, calcIn[1].steps))])
  /\ Done("sweepStep", FALSE)
  /\ UNCHANGED << esVars, texVars, settingsVars, captureVars, rtVars, calcIn >>

\* The loop condition fails after the last step.
SweepEnd ==
  /\ calcIn # Null
  /\ calcIn[1].kind = "sweep"
  /\ Len(calcOut[1].az) = calcIn[1].steps
  /\ last # "sweepEnd"
  /\ Done("sweepEnd", FALSE)
  /\ UNCHANGED << esVars, texVars, settingsVars, captureVars, rtVars,
                  calcVars >>

InitSweep ==
  LET SweepSteps == (1 .. MaxSweep) \cup {DEFAULT_STEPS}
  IN
    /\ InitPage
    /\ NoRoundTrip
    /\ hashPending = Null
    /\ calcIn \in { Some([kind |-> "sweep", s |-> s, e |-> e, steps |-> n]) :
                      s \in AzimuthChoices, e \in AzimuthChoices,
                      n \in SweepSteps }
    /\ calcOut = Some([az |-> << >>, pct |-> << >>])

NextSweep ==
  \/ SweepStep
  \/ SweepEnd

SpecSweep == InitSweep /\ [][NextSweep]_vars

\* C12: the azimuth of step i (0-indexed) of an N-step sweep from s to e is
\* s + (e - s) * i / (N - 1) for N >= 2 (to within a thousandth of a degree)
\* and s for N = 1; step 0 uses s, step N - 1 uses e; for e >= s the
\* azimuths are non-decreasing; for s = 0, e = 360, N = 36 step i uses
\* 360 * i / 35.
C12_SweepAzimuths ==
  LET Abs(x) == IF x >= 0 THEN x ELSE 0 - x
  IN
    (calcIn # Null /\ calcIn[1].kind = "sweep")
    => LET s == calcIn[1].s
           e == calcIn[1].e
           N == calcIn[1].steps
           az == calcOut[1].az
       IN \A j \in 1 .. Len(az) :
            /\ N >= 2 => Abs(az[j] * (N - 1) - (s * (N - 1) + (e - s) * (j - 1)))
                           < N - 1
            /\ N = 1 => az[j] = s
            /\ j = 1 => az[j] = s
            /\ (j = N /\ N >= 2) => az[j] = e
            /\ (j > 1 /\ e >= s) => az[j - 1] <= az[j]
            /\ (s = 0 /\ e = 360000 /\ N = DEFAULT_STEPS)
                 => Abs(az[j] * 35 - 360000 * (j - 1)) < 35

\* The default sweep (0 to 360 degrees in 36 steps) has run to its end.
C12_Witness ==
  /\ calcIn # Null
  /\ calcIn[1].kind = "sweep"
  /\ calcIn[1].s = 0
  /\ calcIn[1].e = 360000
  /\ calcIn[1].steps = DEFAULT_STEPS
  /\ Len(calcOut[1].az) = DEFAULT_STEPS
  /\ last = "sweepEnd"


\* ------------------------------------------------------------------------
\* Archive entries of a frame export
\* ------------------------------------------------------------------------
MaxFrames == 3

\* Smallest step count whose decimal form has two digits.
TWO_DIGIT_STEPS == 10

\* The tail of one iteration: toBlob has settled, the entry is pushed when
\* there is a blob.
ArchiveStep(hasBlob) ==
  /\ calcIn # Null
  /\ calcIn[1].kind = "archive"
  /\ ~calcOut[1].done
  /\ calcOut[1].i < calcIn[1].steps
  /\ calcOut' =
       Some([calcOut[1] EXCEPT
               !.i = @ + 1,
               !.entries = IF hasBlob
                             THEN Append(@, FrameNum(calcOut[1].i,
                                                     calcIn[1].steps))
                             ELSE @,
               !.nullBlobs = IF hasBlob THEN @ ELSE TRUE])
  /\ Done("archiveStep", FALSE)
  /\ UNCHANGED << esVars, texVars, settingsVars, captureVars, rtVars, calcIn >>

\* After the loop: nothing is downloaded for an empty list, else the
\* entries are zipped in order.
ArchiveEnd ==
  /\ calcIn # Null
  /\ calcIn[1].kind = "archive"
  /\ ~calcOut[1].done
  /\ calcOut[1].i = calcIn[1].steps
  /\ calcOut' =
       Some([calcOut[1] EXCEPT
               !.done = TRUE,
               !.zip = IF Len(calcOut[1].entries) = 0
                         THEN Null ELSE Some(calcOut[1].entries)])
  /\ Done("archiveEnd", FALSE)
  /\ UNCHANGED << esVars, texVars, settingsVars, captureVars, rtVars, calcIn >>

InitArchive ==
  LET ArchiveSteps == (1 .. MaxFrames) \cup {TWO_DIGIT_STEPS}
  IN
    /\ InitPage
    /\ NoRoundTrip
    /\ hashPending = Null
    /\ calcIn \in { Some([kind |-> "archive", steps |-> n]) : n \in ArchiveSteps }
    /\ calcOut = Some([i |-> 0, entries |-> << >>, nullBlobs |-> FALSE,
                       done |-> FALSE, zip |-> Null])

NextArchive ==
  \/ \E hasBlob \in BOOLEAN : ArchiveStep(hasBlob)
  \/ ArchiveEnd

SpecArchive == InitArchive /\ [][NextArchive]_vars

\* C13: an N-step frame export in which no step fails (every readback and
\* every encoding delivers) downloads exactly N entries in step order, entry
\* k named frame_<k>.png with k zero-padded to the number of digits of N;
\* the names are distinct and their lexicographic order is their numeric
\* order.
C13_ArchiveComplete ==
  LET RECURSIVE LexLess(_, _)
      \* Strict lexicographic order of two digit strings.
      LexLess(a, b) ==
        IF Len(b) = 0 THEN FALSE
        ELSE IF Len(a) = 0 THEN TRUE
        ELSE IF a[1] # b[1] THEN a[1] < b[1]
        ELSE LexLess(Tail(a), Tail(b))
  IN
    LET RECURSIVE NumberOf(_)
        \* The number a sequence of decimal digits denotes.
        NumberOf(d) ==
          IF Len(d) = 0 THEN 0
          ELSE NumberOf(SubSeq(d, 1, Len(d) - 1)) * 10 + d[Len(d)]
    IN
      ( /\ calcIn # Null
        /\ calcIn[1].kind = "archive"
        /\ calcOut[1].done
        /\ ~calcOut[1].nullBlobs )
      => /\ calcOut[1].zip # Null
         /\ LET names == calcOut[1].zip[1]
                N == calcIn[1].steps
            IN /\ Len(names) = N
               /\ \A k \in 1 .. Len(names) :
                    /\ NumberOf(names[k]) = k
                    /\ Len(names[k]) = Len(Digits(N))
               /\ \A j, k \in 1 .. Len(names) :
                    (j < k) => (names[j] # names[k] /\ LexLess(names[j], names[k]))

\* A ten-step export finished with every frame encoded.
C13_Witness ==
  /\ calcIn # Null
  /\ calcIn[1].kind = "archive"
  /\ calcIn[1].steps = TWO_DIGIT_STEPS
  /\ calcOut[1].done
  /\ ~calcOut[1].nullBlobs
  /\ calcOut[1].zip # Null


\* C14: during an N-step export onProgress is called once after each step
\* with an integer in 0..100; the values are non-decreasing over the steps
\* and the value after the last step is 100.
C14_ProgressMonotone ==
  (calcIn # Null /\ calcIn[1].kind = "sweep")
  => LET N == calcIn[1].steps
         pct == calcOut[1].pct
     IN /\ Len(pct) = Len(calcOut[1].az)
        /\ \A j \in 1 .. Len(pct) :
             /\ pct[j] \in 0 .. 100
             /\ j > 1 => pct[j - 1] <= pct[j]
             /\ j = N => pct[j] = 100

\* A three-step export has reported 33, 67 and 100.
C14_Witness ==
  /\ calcIn # Null
  /\ calcIn[1].kind = "sweep"
  /\ calcIn[1].steps = 3
  /\ calcOut[1].pct = << 33, 67, 100 >>


\* ------------------------------------------------------------------------
\* Grayscale: normalisation of the channel weights
\* ------------------------------------------------------------------------

\* The floor of the divisor, 0.001.
SUM_FLOOR == 1000

\* grayscale.createNode: sum, max(sum, 0.001) and the three quotients.
GrayscaleWeights(rW, gW, bW) ==
  LET sum == rW + gW + bW
      den == Max(sum, SUM_FLOOR)
  IN [normR |-> [num |-> rW, den |-> den],
      normG |-> [num |-> gW, den |-> den],
      normB |-> [num |-> bW, den |-> den]]

\* The node graph is evaluated with the instance's uniforms.
GrayscaleEvaluate ==
  /\ calcIn # Null
  /\ calcIn[1].kind = "gray"
  /\ calcOut = Null
  /\ calcOut' = Some(GrayscaleWeights(calcIn[1].rW, calcIn[1].gW,
                                      calcIn[1].bW))
  /\ Done("grayscale", FALSE)
  /\ UNCHANGED << esVars, texVars, settingsVars, captureVars, rtVars, calcIn >>

\* setParams is called again with another record.
GrayscaleSetParams(r, g, b) ==
  /\ calcIn # Null
  /\ calcIn[1].kind = "gray"
  /\ calcOut # Null
  /\ calcIn' = Some([kind |-> "gray", rW |-> r, gW |-> g, bW |-> b])
  /\ calcOut' = Null
  /\ Done("grayscaleSetParams", FALSE)
  /\ UNCHANGED << esVars, texVars, settingsVars, captureVars, rtVars >>

InitGray ==
  /\ InitPage
  /\ NoRoundTrip
  /\ hashPending = Null
  /\ calcIn = Some([kind |-> "gray", rW |-> 299000, gW |-> 587000,
                    bW |-> 114000])
  /\ calcOut = Null

NextGray ==
  \/ GrayscaleEvaluate
  \* Weights are in millionths here, so that a weight below the 0.001 floor of
  \* the divisor can be written; coefficients are kept as exact fractions.
  \* Weights a parameter record can carry: 0, 0.0005, 0.01 (one slider step),
  \* the three defaults and 1.
  \/ \E r, g, b \in {0, 500, 10000, 114000, 299000, 587000, 1000000} : GrayscaleSetParams(r, g, b)

SpecGray == InitGray /\ [][NextGray]_vars

\* C15: for every non-zero weight triple with non-negative components the
\* coefficients the Grayscale effect applies sum to 1.
C15_GrayscaleWeightsSumToOne ==
  ( /\ calcIn # Null
    /\ calcIn[1].kind = "gray"
    /\ calcOut # Null
    /\ calcIn[1].rW + calcIn[1].gW + calcIn[1].bW > 0 )
  => /\ calcOut[1].normR.den = calcOut[1].normG.den
     /\ calcOut[1].normG.den = calcOut[1].normB.den
     /\ calcOut[1].normR.num + calcOut[1].normG.num + calcOut[1].normB.num
          = calcOut[1].normR.den


\* ------------------------------------------------------------------------
\* Sobel gradients of Normal Map, Sobel Edge and Emboss
\* ------------------------------------------------------------------------
\* common.ts sampleGray at uv + offset.
sampleGray(L, ox, oy) == L[ox][oy]

\* A gradient that weighs the middle row and column like the others.
UnweightedGradient(L) ==
  [gx |-> (0 - sampleGray(L, -1, -1)) + sampleGray(L, 1, -1)
          + sampleGray(L, -1, 0) * (-1) + sampleGray(L, 1, 0) * 1
          + (0 - sampleGray(L, -1, 1)) + sampleGray(L, 1, 1),
   gy |-> (0 - sampleGray(L, -1, -1)) + sampleGray(L, 0, -1) * (-1)
          + (0 - sampleGray(L, 1, -1)) + sampleGray(L, -1, 1)
          + sampleGray(L, 0, 1) * 1 + sampleGray(L, 1, 1)]

\* emboss.createNode: gx and gy.
EmbossGradient(L) ==
  [gx |-> (0 - sampleGray(L, -1, -1)) + sampleGray(L, 1, -1)
          + sampleGray(L, -1, 0) * (-2) + sampleGray(L, 1, 0) * 2
          + (0 - sampleGray(L, -1, 1)) + sampleGray(L, 1, 1),
   gy |-> (0 - sampleGray(L, -1, -1)) + sampleGray(L, 0, -1) * (-2)
          + (0 - sampleGray(L, 1, -1)) + sampleGray(L, -1, 1)
          + sampleGray(L, 0, 1) * 2 + sampleGray(L, 1, 1)]

\* sobelEdge.createNode: gx and gy.
SobelEdgeGradient(L) ==
  [gx |-> (0 - sampleGray(L, -1, -1)) + sampleGray(L, 1, -1)
          + sampleGray(L, -1, 0) * (-2) + sampleGray(L, 1, 0) * 2
          + (0 - sampleGray(L, -1, 1)) + sampleGray(L, 1, 1),
   gy |-> (0 - sampleGray(L, -1, -1)) + sampleGray(L, 0, -1) * (-2)
          + (0 - sampleGray(L, 1, -1)) + sampleGray(L, -1, 1)
          + sampleGray(L, 0, 1) * 2 + sampleGray(L, 1, 1)]

\* normalMapVis.createNode: gx and gy.
NormalMapGradient(L) ==
  [gx |-> (0 - sampleGray(L, -1, -1)) + sampleGray(L, 1, -1)
          + sampleGray(L, -1, 0) * (-2) + sampleGray(L, 1, 0) * 2
          + (0 - sampleGray(L, -1, 1)) + sampleGray(L, 1, 1),
   gy |-> (0 - sampleGray(L, -1, -1)) + sampleGray(L, 0, -1) * (-2)
          + (0 - sampleGray(L, 1, -1)) + sampleGray(L, -1, 1)
          + sampleGray(L, 0, 1) * 2 + sampleGray(L, 1, 1)]

\* One of the three effects builds its node graph over the field.
GradientCreateNode(name) ==
  /\ calcIn # Null
  /\ calcIn[1].kind = "sobel"
  /\ name \notin DOMAIN calcOut[1]
  /\ LET g == CASE name = "Sobel Edge" -> SobelEdgeGradient(calcIn[1].L)
                [] name = "Emboss" -> EmbossGradient(calcIn[1].L)
                [] name = "Normal Map" -> NormalMapGradient(calcIn[1].L)
     IN calcOut' = Some([n \in DOMAIN calcOut[1] \cup {name} |->
                           IF n = name THEN g ELSE calcOut[1][n]])
  /\ Done("gradient", FALSE)
  /\ UNCHANGED << esVars, texVars, settingsVars, captureVars, rtVars, calcIn >>

GradientEffects == {"Normal Map", "Sobel Edge", "Emboss"}

InitSobel ==
  LET Fields ==
        LET \* A luminance field around an interior point: L[ox][oy] is the luminance
            \* (in thousandths) sampled at the offset (ox * dx, oy * dy).
            Offsets == -1 .. 1
        IN
          LET LumaLevels == {0, 1000}
          IN
            [Offsets -> [Offsets -> LumaLevels]]
  IN
    /\ InitPage
    /\ NoRoundTrip
    /\ hashPending = Null
    /\ calcIn \in { Some([kind |-> "sobel", L |-> L]) : L \in Fields }
    /\ calcOut = Some([n \in {} |-> [gx |-> 0, gy |-> 0]])

NextSobel ==
  \E name \in GradientEffects : GradientCreateNode(name)

SpecSobel == InitSobel /\ [][NextSobel]_vars

\* C16: for every luminance field and interior point, the Gx and Gy built by
\* Normal Map, Sobel Edge and Emboss equal the canonical 3x3 Sobel result
\* and the three effects agree with each other.
C16_SobelKernels ==
  LET \* Correlation of a 3x3 kernel with the field.
      Correlate(K, L) ==
        LET RECURSIVE SumSeq(_)
            SumSeq(s) == IF Len(s) = 0 THEN 0 ELSE Head(s) + SumSeq(Tail(s))
        IN
          SumSeq([ j \in 1 .. 9 |->
                     LET row == ((j - 1) \div 3) + 1
                         col == ((j - 1) % 3) + 1
                     IN K[row][col] * L[col - 2][row - 2] ])
  IN
    LET CanonGy == << << -1, -2, -1 >>, << 0, 0, 0 >>, << 1, 2, 1 >> >>
    IN
      LET \* The canonical 3x3 Sobel kernels, rows oy = -1, 0, 1 and columns
          \* ox = -1, 0, 1.
          CanonGx == << << -1, 0, 1 >>, << -2, 0, 2 >>, << -1, 0, 1 >> >>
      IN
        (calcIn # Null /\ calcIn[1].kind = "sobel")
        => /\ \A n \in DOMAIN calcOut[1] :
                /\ calcOut[1][n].gx = Correlate(CanonGx, calcIn[1].L)
                /\ calcOut[1][n].gy = Correlate(CanonGy, calcIn[1].L)
           /\ \A n, m \in DOMAIN calcOut[1] : calcOut[1][n] = calcOut[1][m]

\* The three effects have been built over a field with a vertical edge
\* (dark left column, bright right column).
C16_Witness ==
  LET \* A luminance field around an interior point: L[ox][oy] is the luminance
      \* (in thousandths) sampled at the offset (ox * dx, oy * dy).
      Offsets == -1 .. 1
  IN
    /\ calcIn # Null
    /\ calcIn[1].kind = "sobel"
    /\ DOMAIN calcOut[1] = GradientEffects
    /\ \A oy \in Offsets :
         /\ calcIn[1].L[-1][oy] = 0
         /\ calcIn[1].L[0][oy] = 0
         /\ calcIn[1].L[1][oy] = 1000
    /\ calcOut[1]["Emboss"] = [gx |-> 4000, gy |-> 0]


\* ------------------------------------------------------------------------
\* Halftone CMYK: ink coverage, dot radius and output colour
\* ------------------------------------------------------------------------
\* Shader floats are thousandths, or NaN.  The node graph is evaluated for
\* one fragment of a flat-colour patch: cellColor is the patch colour for
\* all four plates and dist[p] is the fragment's distance from the centre of
\* its cell in plate p's grid.
F(v) == [nan |-> FALSE, v |-> v]

NaN == [nan |-> TRUE, v |-> 0]

Plates == {"c", "m", "y", "k"}

\* dotSizeU as built.
DOT_SIZE == 700

\* createHalftone: mix(0, (1 - channel - k) / invK, invK > 0).  The quotient
\* is evaluated whatever the test says; for invK = 0 it is 0 / 0.
InkOf(ch, k, und) ==
  LET invK == 1000 - k
  IN IF invK > 0 THEN F(((1000 - ch - k) * 1000) \div invK)
     ELSE IF und = "finite" THEN F(0) ELSE NaN

\* cmyk = vec4(c, m, y, k) of the cell.
CmykOf(rgb, und) ==
  LET \* createHalftone: k = min(1 - r, min(1 - g, 1 - b)).
      BlackOf(c) == Min(1000 - c.r, Min(1000 - c.g, 1000 - c.b))
  IN
    LET k == BlackOf(rgb)
    IN [c |-> InkOf(rgb.r, k, und), m |-> InkOf(rgb.g, k, und),
        y |-> InkOf(rgb.b, k, und), k |-> F(k)]

\* radius = dotSizeU * sqrt(clamp(coverage, 0, 1))
RadiusOf(dotSize, cov, und) ==
  LET \* clamp(x, 0, 1)
      Clamp01(x, nanRule) ==
        IF x.nan
          THEN CASE nanRule = "nanClamp1" -> F(1000)
                 [] nanRule = "nanClampNaN" -> NaN
                 [] OTHER -> F(0)
          ELSE F(Max(0, Min(1000, x.v)))
  IN
    LET \* sqrt of a value in [0, 1].
        Sqrt(x) == CHOOSE y \in 0 .. 1000 : y * y <= x * 1000 /\ x * 1000 < (y + 1) * (y + 1)
    IN
      LET cl == Clamp01(cov, und)
      IN IF cl.nan THEN NaN ELSE F((dotSize * Sqrt(cl.v)) \div 1000)

\* dot = float(radius > 0) * (1 - smoothstep(radius - aa, radius + aa, dist))
DotOf(radius, dist) ==
  LET \* smoothstep(e0, e1, x) for e0 < e1.
      Smoothstep(e0, e1, x) ==
        LET t == Max(0, Min(1000, ((x - e0) * 1000) \div (e1 - e0)))
        IN (t * t * (3000 - 2 * t)) \div 1000000
  IN
    LET \* fwidth(dist) for the pixel size as built (one eighth of a cell).
        AA == 125
    IN
      IF radius.nan THEN NaN
      ELSE IF radius.v > 0
             THEN F(1000 - Smoothstep(radius.v - AA, radius.v + AA, dist))
             ELSE F(0)

\* The fragment's plates and colorNode = vec4(vec3(outR, outG, outB) * outK, 1).
CmykFragment(in, und) ==
  LET FMul(a, b) == IF a.nan \/ b.nan THEN NaN ELSE F((a.v * b.v) \div 1000)
  IN
    LET \* 1 - strength * dot
        Subtract(strength, dot) ==
          IF dot.nan THEN NaN ELSE F(1000 - (strength * dot.v) \div 1000)
    IN
      LET cm == CmykOf(in.rgb, und)
          rad == [p \in Plates |-> RadiusOf(in.dotSize, cm[p], und)]
          dot == [p \in Plates |-> DotOf(rad[p], in.dist[p])]
          outK == Subtract(in.strength["k"], dot["k"])
      IN [cmyk |-> cm, radius |-> rad, dot |-> dot,
          colour |-> [r |-> FMul(Subtract(in.strength["c"], dot["c"]), outK),
                      g |-> FMul(Subtract(in.strength["m"], dot["m"]), outK),
                      b |-> FMul(Subtract(in.strength["y"], dot["y"]), outK),
                      a |-> F(1000)]]

\* The fragment is shaded.
CmykShade(und) ==
  /\ calcIn # Null
  /\ calcIn[1].kind = "cmyk"
  /\ calcOut = Null
  /\ calcOut' = Some(CmykFragment(calcIn[1], und))
  /\ Done("cmykShade", FALSE)
  /\ UNCHANGED << esVars, texVars, settingsVars, captureVars, rtVars, calcIn >>

InitCmyk ==
  LET \* Strength sliders: 1.0 as built, 2.0 at the top of the range.
      StrengthLevels == {1000, 2000}
  IN
    LET \* Cell centre and cell corner.
        DistLevels == {0, 707}
    IN
      LET ColourLevels == {0, 750, 1000}
      IN
        /\ InitPage
        /\ NoRoundTrip
        /\ hashPending = Null
        /\ calcIn \in { Some([kind |-> "cmyk", rgb |-> rgb, dist |-> d,
                              strength |-> s, dotSize |-> DOT_SIZE]) :
                          rgb \in [r : ColourLevels, g : ColourLevels,
                                   b : ColourLevels],
                          d \in [Plates -> DistLevels],
                          s \in [Plates -> StrengthLevels] }
        /\ calcOut = Null

\* What an implementation may deliver for 0.0 / 0.0 blended with weight 0,
\* and for clamp of the result: a finite quotient (blend gives 0), or NaN
\* clamped to 0, to 1, or left NaN.
NextCmyk == \E und \in {"finite", "nanClamp0", "nanClamp1", "nanClampNaN"} : CmykShade(und)

SpecCmyk == InitCmyk /\ [][NextCmyk]_vars

\* C17: for every source colour in [0,1]^3 and every in-range parameter
\* record (channel strengths of Halftone CMYK up to 2 included), each RGB
\* component of an effect's output colour lies in [0,1] and alpha is 1.
C17_OutputInUnitRange ==
  LET InUnit(x) == ~x.nan /\ x.v >= 0 /\ x.v <= 1000
  IN
    (calcIn # Null /\ calcIn[1].kind = "cmyk" /\ calcOut # Null)
    => /\ InUnit(calcOut[1].colour.r)
       /\ InUnit(calcOut[1].colour.g)
       /\ InUnit(calcOut[1].colour.b)
       /\ calcOut[1].colour.a = F(1000)


\* C18: for a cell of colour (R,G,B) in [0,1]^3 the coverages are
\* K = min(1-R, 1-G, 1-B) and C, M, Y = (1 - channel - K) / (1 - K), 0 when
\* K = 1, each in [0,1]; and each plate's dot radius r satisfies
\* r^2 = dotSize^2 * coverage.
C18_CmykAreaLaw ==
  LET Abs(x) == IF x >= 0 THEN x ELSE 0 - x
  IN
    LET InUnit(x) == ~x.nan /\ x.v >= 0 /\ x.v <= 1000
    IN
      LET \* The coverage of one ink as the area law states it.
          ExpectedInk(ch, k) ==
            IF k = 1000 THEN 0 ELSE ((1000 - ch - k) * 1000) \div (1000 - k)
      IN
        (calcIn # Null /\ calcIn[1].kind = "cmyk" /\ calcOut # Null)
        => LET rgb == calcIn[1].rgb
               K == Min(1000 - rgb.r, Min(1000 - rgb.g, 1000 - rgb.b))
               cm == calcOut[1].cmyk
           IN /\ cm.k = F(K)
              /\ cm.c = F(ExpectedInk(rgb.r, K))
              /\ cm.m = F(ExpectedInk(rgb.g, K))
              /\ cm.y = F(ExpectedInk(rgb.b, K))
              /\ \A p \in Plates :
                   /\ InUnit(cm[p])
                   /\ ~calcOut[1].radius[p].nan
                   /\ Abs(calcOut[1].radius[p].v * calcOut[1].radius[p].v * 1000
                          - calcIn[1].dotSize * calcIn[1].dotSize * cm[p].v)
                        <= 2000 * calcIn[1].dotSize


\* ------------------------------------------------------------------------
\* Render loop and writers during a capture
\* ------------------------------------------------------------------------
\* C19: whenever any readback is pending the render loop's per-frame
\* callback is unregistered, under every interleaving of user actions
\* (a snapshot started during a frame export, or the reverse, included).
C19_LoopPausedDuringReadback ==
  LET \* Some readRenderTargetPixelsAsync call has not settled yet.
      ReadbackPending ==
        \/ snapPc = "readback"
        \/ \E r \in 1 .. Len(expRuns) : expRuns[r].pc = "readback"
        \/ (vidRun # Null /\ vidRun[1].pc = "readback")
  IN
    ReadbackPending => ~loopOn


\* Key R: Object.assign(lightParams, DEFAULT_LIGHT_PARAMS).  The handler
\* looks at no flag of the exports or of the snapshot.
KeyResetLight ==
  /\ azimuth' = DEFAULT_AZIMUTH
  /\ lightAzimuth' = DEFAULT_AZIMUTH
  /\ Done("keyR", FALSE)
  /\ UNCHANGED << esVars, texVars, settingsVars, renderVars, snapVars,
                  framesVars, vidRun, rtVars, calcVars >>

\* The Azimuth slider of the Light Direction folder is moved: the binding
\* writes lightParams.azimuth, then the change handler moves the light.
AzimuthSlider(v) ==
  /\ azimuth' = v
  /\ lightAzimuth' = v
  /\ Done("azimuthSlider", FALSE)
  /\ UNCHANGED << esVars, texVars, settingsVars, renderVars, snapVars,
                  framesVars, vidRun, rtVars, calcVars >>

\* One tick of playAnimation.  Play can be clicked at any time and the
\* elapsed time decides the step index, so a tick may land on any step.
PlayTick(steps, stepIdx) ==
  /\ azimuth' = StepAzimuth(stepIdx, steps)
  /\ lightAzimuth' = StepAzimuth(stepIdx, steps)
  /\ Done("playTick", FALSE)
  /\ UNCHANGED << esVars, texVars, settingsVars, renderVars, snapVars,
                  framesVars, vidRun, rtVars, calcVars >>

NextWriters ==
  \/ NextCapture
  \/ KeyResetLight
  \* Positions of the Azimuth slider that are tried (min 0, max 360, step 1).
  \/ \E v \in {0, 90000} : AzimuthSlider(v)
  \/ \E steps \in StepChoices : \E stepIdx \in 0 .. (steps - 1) :
       PlayTick(steps, stepIdx)

SpecWriters == InitCapture /\ [][NextWriters]_vars

\* C20: while a frame export is in flight, only the export changes
\* lightParams.azimuth or the renderer's output render target: no Play tick,
\* azimuth slider, keyboard reset or snapshot changes either between the
\* export's first step and its cleanup.
C20_ExportSoleWriter ==
  [][ (Len(expRuns) > 0 /\ (azimuth' # azimuth \/ outputRT' # outputRT))
      \* the steps taken by exportAnimationFrames and its click handler
      => last' \in {"frameRead", "frameEncoded", "framesDone", "framesFailed"}
    ]_vars


\* ------------------------------------------------------------------------
\* Order of the events of one exportAnimationFrames call
\* ------------------------------------------------------------------------
\* Largest step count of the event-order runs.
MaxSeq == 5

\* An iteration that renders before the light is moved.
IterationHeadRenderFirst(i) ==
  << << "render", i >>, << "azimuth", i >>, << "issued", i >> >>

\* The loop body up to its first await: lightParams.azimuth is written, the
\* scene is rendered and readRenderTargetPixelsAsync is called.
IterationHead(i) ==
  << << "azimuth", i >>, << "render", i >>, << "issued", i >> >>

\* The readback of step i settles.  A rejection leaves the loop.
SeqReadbackDone(ok) ==
  /\ calcIn # Null
  /\ calcIn[1].kind = "seq"
  /\ calcOut[1].pc = "readback"
  /\ calcOut' = Some(IF ok
                       THEN [calcOut[1] EXCEPT
                               !.pc = "encode",
                               !.log = Append(@, << "read", calcOut[1].i >>)]
                       ELSE [calcOut[1] EXCEPT !.pc = "failed"])
  /\ Done(IF ok THEN "seqRead" ELSE "seqFailed", ~ok)
  /\ UNCHANGED << esVars, texVars, settingsVars, captureVars, rtVars, calcIn >>

\* toBlob settles: the frame is encoded, and the next iteration runs up to
\* its readback, or the loop ends.
SeqEncodeDone(hasBlob) ==
  /\ calcIn # Null
  /\ calcIn[1].kind = "seq"
  /\ calcOut[1].pc = "encode"
  /\ LET run == calcOut[1]
         log1 == Append(run.log, << "encoded", run.i >>)
     IN calcOut' = Some(IF run.i + 1 < calcIn[1].steps
                          THEN [run EXCEPT
                                  !.pc = "readback",
                                  !.i = run.i + 1,
                                  !.blobs = Append(@, hasBlob),
                                  !.log = log1 \o IterationHead(run.i + 1)]
                          ELSE [run EXCEPT
                                  !.pc = "done",
                                  !.blobs = Append(@, hasBlob),
                                  !.log = log1])
  /\ Done("seqEncoded", FALSE)
  /\ UNCHANGED << esVars, texVars, settingsVars, captureVars, rtVars, calcIn >>

\* The call has run up to the await of its first readback (animParams.steps
\* is at least 1: the Steps slider starts at 2).
InitSeq ==
  /\ InitPage
  /\ NoRoundTrip
  /\ hashPending = Null
  /\ calcIn \in { Some([kind |-> "seq", steps |-> n]) : n \in 1 .. MaxSeq }
  /\ calcOut = Some([pc |-> "readback", i |-> 0, blobs |-> << >>,
                     log |-> IterationHead(0)])

NextSeq ==
  \/ \E ok \in BOOLEAN : SeqReadbackDone(ok)
  \/ \E hasBlob \in BOOLEAN : SeqEncodeDone(hasBlob)

SpecSeq == InitSeq /\ [][NextSeq]_vars

\* C21: within one exportAnimationFrames call the events of each step occur
\* in the order set azimuth, render, readback issued, readback completed
\* (then PNG encoding), and the azimuth update of step i+1 comes only after
\* the readback and encoding of step i: no two steps overlap.
C21_StepsSequential ==
  LET EventRank(ev) ==
        LET \* calcOut holds the call's position and the events it has produced so far,
            \* each event being << kind, step index >>.
            EventKinds == << "azimuth", "render", "issued", "read", "encoded" >>
        IN
          LET \* Place of an event in the strictly sequential order.
              KindIndex(kind) == CHOOSE k \in 1 .. Len(EventKinds) : EventKinds[k] = kind
          IN
            ev[2] * Len(EventKinds) + KindIndex(ev[1])
  IN
    (calcIn # Null /\ calcIn[1].kind = "seq")
    => LET log == calcOut[1].log
       IN /\ \A p \in 1 .. Len(log) : EventRank(log[p]) = p
          /\ \A p \in 1 .. Len(log) :
               (log[p][1] = "azimuth" /\ log[p][2] > 0)
                 => /\ \E q \in 1 .. (p - 1) : log[q] = << "read", log[p][2] - 1 >>
                    /\ \E q \in 1 .. (p - 1) : log[q] = << "encoded", log[p][2] - 1 >>

\* A three-step call ran to its end.
C21_Witness ==
  /\ calcIn # Null
  /\ calcIn[1].kind = "seq"
  /\ calcIn[1].steps = 3
  /\ calcOut[1].pc = "done"
  /\ Len(calcOut[1].log) = 15


\* ------------------------------------------------------------------------
\* The finally blocks of the capture and export operations
\* ------------------------------------------------------------------------
\* saveSnapshot: rt.dispose(); setOutputRenderTarget(null);
\* startRenderLoop(ctx); snapshotInProgress = false; onAfter?.()
SnapshotFinally ==
  << "dispose", "outputNull", "startLoop", "flagFalse", "onAfter" >>

\* exportAnimationFrames: rt.dispose(); planeMat.dithering = prevDither;
\* setOutputRenderTarget(null); startRenderLoop(ctx)
FramesFinally == << "dispose", "restoreDither", "outputNull", "startLoop" >>

\* exportAnimationVideo: recorder.stop() and the wait for onstop;
\* setOutputRenderTarget(null); startRenderLoop(ctx);
\* planeMat.dithering = prevDither; rt.dispose(); outCanvas.remove()
VideoFinally ==
  << "recorderStop", "outputNull", "startLoop", "restoreDither", "dispose",
     "removeCanvas" >>

\* The statements of an operation's finally block, in program order.
Finally(op) ==
  CASE op = "snapshot" -> SnapshotFinally
    [] op = "frames" -> FramesFinally
    [] op = "video" -> VideoFinally

\* The effect of one statement on the renderer and the material.
Exec(st, r) ==
  CASE st = "dispose" -> [r EXCEPT !.rtLive = FALSE]
    [] st = "outputNull" -> [r EXCEPT !.outputRT = Canvas]
    [] st = "startLoop" -> [r EXCEPT !.loopOn = TRUE]
    [] st = "restoreDither" -> [r EXCEPT !.dithering = r.prevDither]
    [] st = "removeCanvas" -> [r EXCEPT !.hiddenCanvas = FALSE]
    [] OTHER -> r

\* The next statement of the finally block runs.
CleanupStatement ==
  /\ calcIn # Null
  /\ calcIn[1].kind = "cleanup"
  /\ calcOut[1].pc < Len(Finally(calcIn[1].op))
  /\ LET r == calcOut[1]
         st == Finally(calcIn[1].op)[r.pc + 1]
     IN calcOut' = Some([Exec(st, r) EXCEPT !.pc = r.pc + 1])
  /\ Done("cleanupStatement", FALSE)
  /\ UNCHANGED << esVars, texVars, settingsVars, captureVars, rtVars, calcIn >>

\* The try block is left after all frames (success) or after a readback
\* that rejected (failure).  material.dithering is true as built; the two
\* exports save it and set it to true, the snapshot leaves it alone.
InitCleanup ==
  LET \* calcIn names the operation whose try block has just been left, after
      \* `done` of its `steps` frames; calcOut is the renderer and material as the
      \* finally block finds them and the number of its statements already run.
      CaptureOps == {"snapshot", "frames", "video"}
  IN
    /\ InitPage
    /\ NoRoundTrip
    /\ hashPending = Null
    /\ calcIn \in { Some([kind |-> "cleanup", op |-> op, steps |-> n,
                          done |-> d]) :
                      op \in CaptureOps, n \in 1 .. MaxSweep, d \in 0 .. MaxSweep }
    /\ calcIn[1].done <= calcIn[1].steps
    /\ calcIn[1].op = "snapshot" => calcIn[1].steps = 1
    /\ calcOut = Some([pc |-> 0, loopOn |-> FALSE, outputRT |-> "rt",
                       rtLive |-> TRUE, dithering |-> TRUE,
                       prevDither |-> TRUE,
                       hiddenCanvas |-> (calcIn[1].op = "video")])

SpecCleanup == InitCleanup /\ [][CleanupStatement]_vars

\* C22: in the cleanup of every capture/export operation the output render
\* target is set back to the presentable surface and the material dithering
\* flag is set back to its saved value before the render loop is
\* re-registered (startRenderLoop); the offscreen render target is disposed
\* in the same finally block on success and on failure.
C22_RestoreBeforeLoop ==
  LET Ran(st) ==
        LET \* Statements of the finally block that have run.
            Executed == SubSeq(Finally(calcIn[1].op), 1, calcOut[1].pc)
        IN
          \E p \in 1 .. Len(Executed) : Executed[p] = st
  IN
    (calcIn # Null /\ calcIn[1].kind = "cleanup")
    => /\ Ran("startLoop")
            => /\ Ran("outputNull")
               /\ calcOut[1].outputRT = Canvas
               /\ (\E p \in 1 .. Len(Finally(calcIn[1].op)) :
                      Finally(calcIn[1].op)[p] = "restoreDither")
                    => Ran("restoreDither")
       /\ calcOut[1].pc = Len(Finally(calcIn[1].op)) => ~calcOut[1].rtLive


\* ------------------------------------------------------------------------
\* The crop rectangle and the region that is read back
\* ------------------------------------------------------------------------
\* C23: whenever the screen-rect projector returns a rectangle
\* {x, y, width, height} for a w x h surface, 0 <= x, 0 <= y, width > 0,
\* height > 0, x + width <= w and y + height <= h, for any projected corner
\* coordinates, far outside the surface included; it returns null exactly
\* when the clamped width or the clamped height is <= 0.
C23_RectInsideSurface ==
  LET \* The rectangle a projector returned, as {x, y, width, height}.
      XYWH(out) ==
        IF out.op = "snapshot"
          THEN out.rect[1]
          ELSE [x |-> out.rect[1].sx, y |-> out.rect[1].sy,
                width |-> out.rect[1].sw, height |-> out.rect[1].sh]
  IN
    (calcOut # Null /\ calcIn[1].kind = "rect")
    => LET in == calcIn[1]
           cw == Min(in.w, Ceil(in.e.maxX)) - Max(0, Floor(in.e.minX))
           ch == Min(in.h, Ceil(in.e.maxY)) - Max(0, Floor(in.e.minY))
       IN /\ (calcOut[1].rect = Null) <=> (cw <= 0 \/ ch <= 0)
          /\ calcOut[1].rect # Null
               => LET r == XYWH(calcOut[1])
                  IN /\ 0 <= r.x
                     /\ 0 <= r.y
                     /\ r.width > 0
                     /\ r.height > 0
                     /\ r.x + r.width <= in.w
                     /\ r.y + r.height <= in.h

\* The snapshot projected a plane that overhangs the surface on both sides
\* and got the full width back.
C23_Witness ==
  /\ calcOut # Null
  /\ calcIn[1].kind = "rect"
  /\ calcOut[1].op = "snapshot"
  /\ calcIn[1].e.minX < 0
  /\ calcIn[1].e.maxX > 2 * calcIn[1].w
  /\ calcOut[1].rect # Null
  /\ calcOut[1].rect[1].x = 0
  /\ calcOut[1].rect[1].width = calcIn[1].w


\* C27: the rectangle passed to readRenderTargetPixelsAsync, rx = x,
\* ry = h - y - height, rw = width, rh = height (or 0, 0, w, h when there is
\* no crop rectangle), lies inside the w x h render target: 0 <= rx,
\* 0 <= ry, rx + rw <= w, ry + rh <= h, with rw > 0 and rh > 0.
C27_ReadbackInsideTarget ==
  LET \* The rectangle a projector returned, as {x, y, width, height}.
      XYWH(out) ==
        IF out.op = "snapshot"
          THEN out.rect[1]
          ELSE [x |-> out.rect[1].sx, y |-> out.rect[1].sy,
                width |-> out.rect[1].sw, height |-> out.rect[1].sh]
  IN
    (calcOut # Null /\ calcIn[1].kind = "rect"
       /\ calcOut[1].op \in {"snapshot", "frame"})
    => LET reg == calcOut[1].region
           in == calcIn[1]
       IN /\ calcOut[1].rect # Null
               => LET r == XYWH(calcOut[1])
                  IN reg = [rx |-> r.x, ry |-> in.h - r.y - r.height,
                            rw |-> r.width, rh |-> r.height]
          /\ calcOut[1].rect = Null
               => reg = [rx |-> 0, ry |-> 0, rw |-> in.w, rh |-> in.h]
          /\ 0 <= reg.rx
          /\ 0 <= reg.ry
          /\ reg.rw > 0
          /\ reg.rh > 0
          /\ reg.rx + reg.rw <= in.w
          /\ reg.ry + reg.rh <= in.h

\* A frame was read for a plane that covers only the lower row of the
\* surface: the region starts at the bottom row of the render target.
C27_Witness ==
  /\ calcOut # Null
  /\ calcIn[1].kind = "rect"
  /\ calcOut[1].op = "frame"
  /\ calcOut[1].rect # Null
  /\ calcOut[1].rect[1].sy = 1
  /\ calcIn[1].h = 2
  /\ calcOut[1].region.ry = 0
  /\ calcOut[1].region.rh = 1


\* ------------------------------------------------------------------------
\* Cached direction cosines of Emboss and Halftone
\* ------------------------------------------------------------------------
\* Parameter records handed to setParams: any subset of the effect's keys,
\* with values from the defaults or the alternative sample and any angle.
AngleParamRecords(name) ==
  LET Angles == {0, 45000, 90000, 135000, 180000, 360000}
  IN
    { [k \in S |-> IF k = "angle" THEN Num(a) ELSE q[k]] :
        S \in SUBSET DOMAIN Defaults(name),
        q \in {Defaults(name), AltParams(name)},
        a \in Angles }

\* instance.setParams(p); calcOut keeps the uniforms, the cached pair as it
\* was before the call and whether the call carried an angle.
AngleSetParams(p) ==
  /\ calcIn # Null
  /\ calcIn[1].kind = "angle"
  /\ calcOut' = Some([u |-> SetParams(calcIn[1].effect, calcOut[1].u, p),
                      prevCos |-> calcOut[1].u.cosA,
                      prevSin |-> calcOut[1].u.sinA,
                      calls |-> 1,
                      carried |-> Has(p, "angle")])
  /\ Done("angleSetParams", FALSE)
  /\ UNCHANGED << esVars, texVars, settingsVars, captureVars, rtVars, calcIn >>

\* createNode has just returned.
InitAngle ==
  LET AngleEffects == {"Emboss", "Halftone"}
  IN
    /\ InitPage
    /\ NoRoundTrip
    /\ hashPending = Null
    /\ calcIn \in { Some([kind |-> "angle", effect |-> name]) :
                      name \in AngleEffects }
    /\ calcOut = Some([u |-> InitUniforms(calcIn[1].effect),
                       prevCos |-> InitUniforms(calcIn[1].effect).cosA,
                       prevSin |-> InitUniforms(calcIn[1].effect).sinA,
                       calls |-> 0,
                       carried |-> FALSE])

NextAngle ==
  \E p \in AngleParamRecords(calcIn[1].effect) : AngleSetParams(p)

SpecAngle == InitAngle /\ [][NextAngle]_vars

\* C24: for the Emboss and Halftone instances, after any sequence of
\* setParams calls (and before the first one) the cached cosine and sine
\* uniforms are cos and sin of the stored angle uniform, and a setParams
\* call that carries no angle leaves the cached pair unchanged.
C24_CachedTrigMatchesAngle ==
  (calcIn # Null /\ calcIn[1].kind = "angle")
  => /\ calcOut[1].u.cosA = CosMilli(calcOut[1].u.angleU)
     /\ calcOut[1].u.sinA = SinMilli(calcOut[1].u.angleU)
     /\ (calcOut[1].calls > 0 /\ ~calcOut[1].carried)
          => /\ calcOut[1].u.cosA = calcOut[1].prevCos
             /\ calcOut[1].u.sinA = calcOut[1].prevSin

\* A Halftone instance whose angle was set to 90 degrees and that then got
\* a setParams call without an angle.
C24_Witness ==
  /\ calcIn # Null
  /\ calcIn[1].kind = "angle"
  /\ calcIn[1].effect = "Halftone"
  /\ calcOut[1].calls > 0
  /\ ~calcOut[1].carried
  /\ calcOut[1].u.angleU = 90000
  /\ calcOut[1].u.cosA = 0
  /\ calcOut[1].u.sinA = 1000


\* ------------------------------------------------------------------------
\* saveSnapshot: paths of the async body
\* ------------------------------------------------------------------------
\* Statements of the async body that stand before its try block.
BeforeTry == {"computePlaneBounds", "newRenderTarget"}

\* saveSnapshot is called and a statement before the try block throws: the
\* guard was raised by the synchronous part, the async body rejects with
\* nobody awaiting it, and neither the catch nor the finally block runs.
SnapshotStartThrows(where) ==
  /\ where \in BeforeTry
  /\ ~snapshotInProgress
  /\ snapshotInProgress' = TRUE
  /\ Done("snapshotThrew", FALSE)
  /\ UNCHANGED << esVars, texVars, settingsVars, renderVars, azimuth, lightAzimuth, snapPc,
                  framesVars, vidRun, rtVars, calcVars >>

NextSnapshotPaths ==
  \/ NextCapture
  \/ \E where \in BeforeTry : SnapshotStartThrows(where)

\* A pending readback settles, with a result or with a rejection.
SnapshotFairness == WF_vars(\E ok \in BOOLEAN : SnapshotFinish(ok))

SpecSnapshotPaths ==
  InitCapture /\ [][NextSnapshotPaths]_vars /\ SnapshotFairness

\* C25: after every saveSnapshot call, on every path of its async body
\* (success, readback failure, or an exception thrown before the try
\* block), the snapshotInProgress guard eventually becomes false again with
\* the render loop running, so a later saveSnapshot is never permanently
\* rejected.
C25_SnapshotGuardReleased ==
  snapshotInProgress ~> (~snapshotInProgress /\ loopOn)


\* ------------------------------------------------------------------------
\* What the Export Frames handler leaves behind
\* ------------------------------------------------------------------------
\* C26: when the Export Frames handler finishes, whether
\* exportAnimationFrames resolved or rejected, lightParams.azimuth equals
\* the value it had when the handler started, the point light is positioned
\* from it, and the exporting flag is false.
C26_HandlerRestoresAzimuth ==
  [][ /\ last' = "exportStart"
        => expRuns'[Len(expRuns')].savedAzimuth = azimuth
      /\ last' \in {"framesDone", "framesFailed"}
        => \E r \in 1 .. Len(expRuns) :
             /\ expRuns' = RemoveAt(expRuns, r)
             /\ azimuth' = expRuns[r].savedAzimuth
             /\ lightAzimuth' = azimuth'
             /\ ~exporting' ]_vars

\* An export that was started with the slider at 90 degrees rejected after
\* its sweep had moved the light to 0, and the light is back at 90 degrees.
C26_Witness ==
  /\ last = "framesFailed"
  /\ azimuth = 90000
  /\ lightAzimuth = 90000
  /\ ~exporting


\* ------------------------------------------------------------------------
\* Play and Stop: the requestAnimationFrame chain of playAnimation
\* ------------------------------------------------------------------------
\* calcIn is animParams; calcOut holds animId, the animation frames that are
\* requested and not yet run or cancelled (each with the elapsed time its
\* chain last saw, -1 before the first tick) and the number of Play clicks.
MaxClicks == 2

\* Elapsed time is counted in units of totalMs / TimeUnits.
TimeUnits == 2

\* requestAnimationFrame returns an id no requested frame carries.
FreshId(pending) ==
  LET FrameIds == 1 .. 3
  IN
    CHOOSE i \in FrameIds : \A f \in pending : f.id # i

\* stopAnimation: cancelAnimationFrame(animId); animId = null
StopAnimation(a) ==
  IF a.animId = Null
    THEN a
    ELSE [a EXCEPT !.animId = Null,
                   !.pending = { f \in a.pending : f.id # a.animId[1] }]

\* A Play click that does not cancel the running animation first.
playAnimationNoStop(a) ==
  LET id == FreshId(a.pending)
  IN [a EXCEPT !.animId = Some(id),
               !.pending = a.pending \cup {[id |-> id, t |-> -1]},
               !.clicks = a.clicks + 1]

\* playAnimation: stopAnimation(); ...; animId = requestAnimationFrame(tick)
playAnimation(a) ==
  LET s == StopAnimation(a)
      id == FreshId(s.pending)
  IN [s EXCEPT !.animId = Some(id),
               !.pending = s.pending \cup {[id |-> id, t |-> -1]},
               !.clicks = a.clicks + 1]

\* The Play button is clicked.
PlayClick ==
  /\ calcIn # Null
  /\ calcIn[1].kind = "play"
  /\ calcOut[1].clicks < MaxClicks
  /\ calcOut' = Some(playAnimation(calcOut[1]))
  /\ Done("playClick", FALSE)
  /\ UNCHANGED << esVars, texVars, settingsVars, captureVars, rtVars, calcIn >>

\* The Stop button is clicked.
StopClick ==
  /\ calcIn # Null
  /\ calcIn[1].kind = "play"
  /\ calcOut' = Some(StopAnimation(calcOut[1]))
  /\ Done("stopClick", FALSE)
  /\ UNCHANGED << esVars, texVars, settingsVars, captureVars, rtVars, calcIn >>

\* A requested frame runs tick() with t = min(elapsed / totalMs, 1): the
\* light is moved to the step of t, and the next frame is requested unless
\* t has reached 1.
AnimTick(f, t) ==
  /\ calcIn # Null
  /\ calcIn[1].kind = "play"
  /\ f \in calcOut[1].pending
  /\ t > f.t
  /\ LET in == calcIn[1]
         a == calcOut[1]
         stepIdx == Min((t * in.steps) \div TimeUnits, in.steps - 1)
         rest == a.pending \ {f}
         id == FreshId(rest)
     IN /\ azimuth' = SweepAzimuth(in.s, in.e, stepIdx, in.steps)
        /\ lightAzimuth' = SweepAzimuth(in.s, in.e, stepIdx, in.steps)
        /\ IF t < TimeUnits
             THEN /\ calcOut' = Some([a EXCEPT
                                        !.animId = Some(id),
                                        !.pending = rest \cup
                                                      {[id |-> id, t |-> t]}])
                  /\ Done("animTick", FALSE)
             ELSE /\ calcOut' = Some([a EXCEPT !.animId = Null,
                                               !.pending = rest])
                  /\ Done("animEnd", FALSE)
  /\ UNCHANGED << esVars, texVars, settingsVars, renderVars, snapVars,
                  framesVars, vidRun, rtVars, calcIn >>

InitPlay ==
  LET PlaySteps == {2, 3}
  IN
    /\ InitPage
    /\ NoRoundTrip
    /\ hashPending = Null
    /\ calcIn \in { Some([kind |-> "play", s |-> s, e |-> e, steps |-> n]) :
                      s \in AzimuthChoices, e \in AzimuthChoices,
                      n \in PlaySteps }
    /\ calcOut = Some([animId |-> Null, pending |-> {}, clicks |-> 0])

NextPlay ==
  \/ PlayClick
  \/ StopClick
  \/ \E f \in calcOut[1].pending : \E t \in 0 .. TimeUnits : AnimTick(f, t)

\* A requested animation frame is eventually run.
PlayFairness ==
  WF_vars(\E f \in calcOut[1].pending : \E t \in 0 .. TimeUnits : AnimTick(f, t))

SpecPlay == InitPlay /\ [][NextPlay]_vars /\ PlayFairness

\* C28: at most one Play tick chain is scheduled at any time (Play cancels
\* a running animation first, Stop cancels it), and a Play animation that is
\* not stopped terminates with animId = null and lightParams.azimuth equal
\* to endAzimuth.
C28_SinglePlayChain ==
  \* At most one frame is requested, and it is the one animId names.
  /\ [](/\ Cardinality(calcOut[1].pending) <= 1
        /\ \A f \in calcOut[1].pending : calcOut[1].animId = Some(f.id)
        /\ calcOut[1].animId # Null
             => \E f \in calcOut[1].pending : f.id = calcOut[1].animId[1])
  /\ [](last = "animEnd"
          => (calcOut[1].animId = Null /\ azimuth = calcIn[1].e))
  /\ (calcOut[1].animId # Null) ~> (calcOut[1].animId = Null)

\* Play was clicked twice and the second animation ran to its end.
C28_Witness ==
  /\ calcIn # Null
  /\ calcIn[1].kind = "play"
  /\ calcIn[1].s = 0
  /\ calcIn[1].e = 360000
  /\ calcOut[1].clicks = 2
  /\ last = "animEnd"
  /\ azimuth = 360000


\* ------------------------------------------------------------------------
\* Dropdown, selection and attached graph after a user action
\* ------------------------------------------------------------------------
\* C29: after every completed user action (dropdown change, E-key cycle,
\* settings import) the dropdown's value effectPick.selected equals
\* effectState.selected, and material.colorNode is the colorNode of
\* effectState.instance, or null when the instance is null.
C29_DropdownMatchesSelection ==
  last \in {"dropdown", "keyE", "import"}
  => /\ effectPick = selected
     /\ colorNode = (IF instance = Null THEN 0 ELSE instance[1].node)


\* ------------------------------------------------------------------------
\* Row stride of the readback buffer and _floatToDitheredUint8
\* ------------------------------------------------------------------------
BAYER8 ==
  <<  0, 48, 12, 60,  3, 51, 15, 63,
     32, 16, 44, 28, 35, 19, 47, 31,
      8, 56,  4, 52, 11, 59,  7, 55,
     40, 24, 36, 20, 43, 27, 39, 23,
      2, 50, 14, 62,  1, 49, 13, 61,
     34, 18, 46, 30, 33, 17, 45, 29,
     10, 58,  6, 54,  9, 57,  5, 53,
     42, 26, 38, 22, 41, 25, 37, 21 >>

MaxRows == 2

\* A row stride rounded down to the 256-byte boundary.
AlignedFloatsPerRowFloor(rw) == (((rw * 16) \div 256) * 256) \div 4

\* alignedBytesPerRow = Math.ceil((rw * bytesPerTexel) / 256) * 256;
\* alignedFloatsPerRow = alignedBytesPerRow / 4
AlignedFloatsPerRow(rw) == ((((rw * 16) + 255) \div 256) * 256) \div 4

\* Math.max(0, Math.min(255, Math.round(v * 255 + t))) stored in a
\* Uint8ClampedArray, for t = num / 256 (NaN is stored as 0).
ToByte(val, num) ==
  IF val.nan
    THEN 0
    ELSE Max(0, Min(255, (val.v * 255 * 256 + num * 1000 + 128000) \div 256000))

\* One iteration of the inner loop: the four floats of a texel are read and
\* the four bytes of its destination written; then x and y advance.
DitherPixel ==
  LET \* src[i] of the readback buffer: the patch colour in the texels of a row,
      \* alpha in every fourth float.
      SrcAt(in, i) == IF i % 4 = 3 THEN in.alpha ELSE in.rgb
  IN
    LET \* t = (_BAYER8[(y & 7) * 8 + (x & 7)] / 64.0 - 0.5) * 1.5, times 256.
        DitherNum(x, y) == 6 * BAYER8[(y % 8) * 8 + (x % 8) + 1] - 192
    IN
      /\ calcIn # Null
      /\ calcIn[1].kind = "dither"
      /\ calcOut[1].y < calcIn[1].rh
      /\ LET in == calcIn[1]
             o == calcOut[1]
             srcY == in.rh - 1 - o.y
             si == srcY * in.stride + o.x * 4
             di == o.y * (in.rw * 4) + o.x * 4
             t == DitherNum(o.x, o.y)
             byte(c) == ToByte(SrcAt(in, si + c), IF c = 3 THEN 0 ELSE t)
         IN calcOut' =
              Some([x |-> IF o.x + 1 < in.rw THEN o.x + 1 ELSE 0,
                    y |-> IF o.x + 1 < in.rw THEN o.y ELSE o.y + 1,
                    dst |-> [j \in 1 .. Len(o.dst) |->
                               IF j - 1 \in di .. (di + 3)
                                 THEN byte(j - 1 - di) ELSE o.dst[j]],
                    writes |-> [j \in 1 .. Len(o.writes) |->
                                  IF j - 1 \in di .. (di + 3)
                                    THEN o.writes[j] + 1 ELSE o.writes[j]],
                    maxRead |-> Max(o.maxRead, si + 3)])
      /\ Done("ditherPixel", FALSE)
      /\ UNCHANGED << esVars, texVars, settingsVars, captureVars, rtVars, calcIn >>

\* The readback of an rw x rh region has settled and the conversion starts:
\* dst = new Uint8ClampedArray(width * height * 4).
InitDither ==
  LET \* Channel values of the float buffer (thousandths), in range, out of range
      \* and NaN.
      FloatLevels == {F(-200), F(0), F(500), F(1000), F(1500), NaN}
  IN
    LET \* Readback widths on both sides of the 256-byte row (16 texels) and of the
        \* dither matrix (8 texels), and readback heights.
        ReadWidths == {1, 2, 9, 16, 17}
    IN
      /\ InitPage
      /\ NoRoundTrip
      /\ hashPending = Null
      /\ calcIn \in { Some([kind |-> "dither", rw |-> rw, rh |-> rh,
                            stride |-> AlignedFloatsPerRow(rw),
                            rgb |-> c, alpha |-> a]) :
                        rw \in ReadWidths, rh \in 1 .. MaxRows,
                        c \in FloatLevels, a \in {F(500), F(1000)} }
      /\ calcOut = Some([x |-> 0, y |-> 0,
                         dst |-> [j \in 1 .. (calcIn[1].rw * calcIn[1].rh * 4)
                                    |-> 0],
                         writes |-> [j \in 1 .. (calcIn[1].rw * calcIn[1].rh * 4)
                                       |-> 0],
                         maxRead |-> -1])

SpecDither == InitDither /\ [][DitherPixel]_vars

\* C30: for every readback width rw >= 1 the padded row stride
\* alignedFloatsPerRow = ceil(rw * 16 / 256) * 256 / 4 is a multiple of 64
\* and at least 4 * rw, and _floatToDitheredUint8 reads only source indices
\* below rh * alignedFloatsPerRow and writes each of the rw * rh * 4
\* destination bytes exactly once, with a value in 0..255 (alpha without
\* the dither offset).
C30_StrideAndDither ==
  (calcIn # Null /\ calcIn[1].kind = "dither")
  => LET in == calcIn[1]
         o == calcOut[1]
     IN /\ in.stride % 64 = 0
        /\ in.stride >= 4 * in.rw
        /\ o.maxRead < in.rh * in.stride
        /\ Len(o.dst) = in.rw * in.rh * 4
        /\ \A j \in 1 .. Len(o.dst) :
             /\ o.writes[j] <= 1
             /\ o.y = in.rh => o.writes[j] = 1
             /\ o.dst[j] \in 0 .. 255
             /\ (o.writes[j] = 1 /\ (j - 1) % 4 = 3)
                  => o.dst[j] = ToByte(in.alpha, 0)

\* A two-row region 17 texels wide (stride 128 floats) was converted to the
\* end, from a buffer holding values above 1.
C30_Witness ==
  /\ calcIn # Null
  /\ calcIn[1].kind = "dither"
  /\ calcIn[1].rw = 17
  /\ calcIn[1].rh = 2
  /\ calcIn[1].stride = 128
  /\ calcIn[1].rgb = F(1500)
  /\ calcOut[1].y = 2
  /\ calcOut[1].maxRead = 128 + 16 * 4 + 3
  /\ calcOut[1].dst[1] = 255

====
